---- MODULE Spec2Model ----
(***************************************************************************)
(* The in-memory store (server/storage.ts, class MemStorage) and the       *)
(* request handlers that drive it (server/routes.ts).                      *)
(*                                                                         *)
(* Representation.                                                         *)
(*  - `storage` is the process-wide MemStorage instance: a record whose    *)
(*    fields are the private members of the class (eight maps, eight id    *)
(*    counters).  A Map<number, T> is a function from the keys present to  *)
(*    the records; a JS Map iterates in insertion order, and the store     *)
(*    only ever inserts increasing keys, so iteration is ascending key.    *)
(*  - `ret` is what the last call handed back to its caller.               *)
(*  - `now` is the clock `new Date()` reads, in ticks.                      *)
(*  - `issued` is the reset tokens handed to callers: for each token the    *)
(*    user it was last generated for, when it lapses, and whether a         *)
(*    resetPassword call has presented it since.                            *)
(*  - `inflight` is the requests whose handler is suspended at an await.    *)
(*  - amounts and points are integers.  Prices and values are integers in  *)
(*    units of 1/PriceScale, fees in units of 1/(PriceScale*FeeScale), so  *)
(*    the products the handlers form are exact.                            *)
(*  - an absent optional field (undefined / null) is a field the record    *)
(*    does not have.                                                       *)
(***************************************************************************)
EXTENDS Integers, Sequences, FiniteSets, TLC

VARIABLES storage, ret, now, issued, inflight

vars == <<storage, ret, now, issued, inflight>>

(***************************************************************************)
(* Generic helpers: object spread, Map.set, Map iteration                  *)
(***************************************************************************)

\* { ...a, ...b }
Merge(a, b) ==
  [f \in (DOMAIN a) \cup (DOMAIN b) |-> IF f \in DOMAIN b THEN b[f] ELSE a[f]]

\* the empty Map
EmptyMap == [k \in {} |-> 0]

\* map.set(k, v)
MapSet(m, k, v) ==
  [i \in (DOMAIN m) \cup {k} |-> IF i = k THEN v ELSE m[i]]

\* what a lookup answers for a key the Map does not hold
Undefined == [undefined |-> TRUE]

\* map.get(k)
MapGet(m, k) == IF k \in DOMAIN m THEN m[k] ELSE Undefined

Min(S) == CHOOSE x \in S : \A y \in S : x <= y

Max(S) == CHOOSE x \in S : \A y \in S : x >= y

RECURSIVE KeysInOrder(_)
KeysInOrder(S) ==
  IF S = {} THEN <<>> ELSE LET k == Min(S) IN <<k>> \o KeysInOrder(S \ {k})

\* Array.from(map.values())
Values(m) ==
  LET ks == KeysInOrder(DOMAIN m) IN [i \in 1..Len(ks) |-> m[ks[i]]]

RECURSIVE SumOver(_, _)
\* the sum of f[k] over k in S
SumOver(f, S) ==
  IF S = {} THEN 0 ELSE LET k == CHOOSE x \in S : TRUE IN f[k] + SumOver(f, S \ {k})

(***************************************************************************)
(* Units                                                                   *)
(***************************************************************************)

\* a price or value v is the number v / PriceScale (0.0000327 = 327 / 10^7)
PriceScale == 10000000

\* a trading fee rate f is the number f / FeeScale (0.001 = 1 / 1000)
FeeScale == 1000

(***************************************************************************)
(* MemStorage: construction                                                *)
(***************************************************************************)

\* the fields the constructor initialises before it seeds anything
emptyStorage ==
  [ users |-> EmptyMap, tradingPairs |-> EmptyMap, orders |-> EmptyMap,
    trades |-> EmptyMap, rewardsEvents |-> EmptyMap, rewardsTiers |-> EmptyMap,
    newsArticles |-> EmptyMap, subscribers |-> EmptyMap,
    userCurrentId |-> 1, tradingPairCurrentId |-> 1, orderCurrentId |-> 1,
    tradeCurrentId |-> 1, rewardsEventCurrentId |-> 1, rewardsTierCurrentId |-> 1,
    newsArticleCurrentId |-> 1, subscriberCurrentId |-> 1 ]

\* a call's outcome: the store after it and the value it returns
Out(self, value) == [self |-> self, ret |-> value]

(***************************************************************************)
(* MemStorage: trading pairs                                               *)
(***************************************************************************)

getTradingPair(self, id) == MapGet(self.tradingPairs, id)

\* array.filter(keep), given the indices to keep
SelectIndices(array, keep) ==
  LET ks == KeysInOrder(keep) IN [i \in 1..Len(ks) |-> array[ks[i]]]

getAllTradingPairs(self, activeOnly) ==
  LET pairs == Values(self.tradingPairs)
  IN IF activeOnly
     THEN SelectIndices(pairs, {i \in 1..Len(pairs) :
                                  "isActive" \in DOMAIN pairs[i] /\ pairs[i].isActive})
     ELSE pairs

createTradingPair(self, tradingPair) ==
  LET id == self.tradingPairCurrentId
      pair == Merge(tradingPair, [id |-> id])
  IN Out([self EXCEPT !.tradingPairCurrentId = id + 1,
                      !.tradingPairs = MapSet(@, id, pair)], pair)

updateTradingPair(self, id, data) ==
  LET pair == getTradingPair(self, id) IN
  IF pair = Undefined THEN Out(self, Undefined)
  ELSE LET updatedPair == Merge(pair, data)
       IN Out([self EXCEPT !.tradingPairs = MapSet(@, id, updatedPair)], updatedPair)

(***************************************************************************)
(* MemStorage: rewards tiers                                               *)
(***************************************************************************)

createRewardsTier(self, tier) ==
  LET id == self.rewardsTierCurrentId
      newTier == Merge(tier, [id |-> id])
  IN Out([self EXCEPT !.rewardsTierCurrentId = id + 1,
                      !.rewardsTiers = MapSet(@, id, newTier)], newTier)

getAllRewardsTiers(self) == Values(self.rewardsTiers)

\* the three default pairs, in the order the constructor creates them
seedPair(quote) ==
  [ baseAsset |-> "T&E", quoteAsset |-> quote, pairSymbol |-> "T&E/" \o quote,
    minTradeAmount |-> 100, maxTradeAmount |-> 1000000, tradingFee |-> 1,
    isActive |-> TRUE ]

\* the four default tiers (tradingFeeDiscount in percent)
seedTier(name, points, discount) ==
  [ name |-> name, pointsRequired |-> points, tradingFeeDiscount |-> discount ]

\* new MemStorage()
constructor ==
  LET p1 == createTradingPair(emptyStorage, seedPair("SOL")).self
      p2 == createTradingPair(p1, seedPair("USDC")).self
      p3 == createTradingPair(p2, seedPair("BTC")).self
      t1 == createRewardsTier(p3, seedTier("Bronze", 0, 0)).self
      t2 == createRewardsTier(t1, seedTier("Silver", 1000, 10)).self
      t3 == createRewardsTier(t2, seedTier("Gold", 5000, 20)).self
      t4 == createRewardsTier(t3, seedTier("Platinum", 10000, 30)).self
  IN t4

(***************************************************************************)
(* MemStorage: users                                                       *)
(***************************************************************************)

getUser(self, id) == MapGet(self.users, id)

\* the characters of a username (a string is the sequence of its characters)
chars(username) ==
  CASE username = "alice" -> <<"a", "l", "i", "c", "e">>
    [] username = "bob" -> <<"b", "o", "b">>
    [] username = "carol" -> <<"c", "a", "r", "o", "l">>
    [] username = "dave" -> <<"d", "a", "v", "e">>
    [] username = "erin" -> <<"e", "r", "i", "n">>
    [] username = "frank" -> <<"f", "r", "a", "n", "k">>
    [] username = "grace" -> <<"g", "r", "a", "c", "e">>
    [] username = "heidi" -> <<"h", "e", "i", "d", "i">>
    [] username = "ivan" -> <<"i", "v", "a", "n">>
    [] username = "judy" -> <<"j", "u", "d", "y">>
    [] username = "mallory" -> <<"m", "a", "l", "l", "o", "r", "y">>
    [] username = "niaj" -> <<"n", "i", "a", "j">>
    [] username = "u" -> <<"u">>
    [] username = "u1" -> <<"u", "1">>
    [] OTHER -> <<>>

LowerCase ==
  << "a", "b", "c", "d", "e", "f", "g", "h", "i", "j", "k", "l", "m",
     "n", "o", "p", "q", "r", "s", "t", "u", "v", "w", "x", "y", "z" >>

UpperCase ==
  << "A", "B", "C", "D", "E", "F", "G", "H", "I", "J", "K", "L", "M",
     "N", "O", "P", "Q", "R", "S", "T", "U", "V", "W", "X", "Y", "Z" >>

\* s.toUpperCase()
toUpperCase(s) ==
  [ i \in 1..Len(s) |->
      IF \E j \in 1..Len(LowerCase) : LowerCase[j] = s[i]
      THEN UpperCase[CHOOSE j \in 1..Len(LowerCase) : LowerCase[j] = s[i]]
      ELSE s[i] ]

\* s.slice(0, n): a negative n counts from the end
slice(s, n) ==
  SubSeq(s, 1, IF n < 0 THEN Max({Len(s) + n, 0}) ELSE Min({n, Len(s)}))

Digits == <<"0", "1", "2", "3", "4", "5", "6", "7", "8", "9">>

RECURSIVE decimal(_)
\* `${id}` for id >= 0
decimal(id) ==
  IF id < 10 THEN <<Digits[id + 1]>>
  ELSE decimal(id \div 10) \o <<Digits[(id % 10) + 1]>>

\* `${insertUser.username.slice(0, 5).toUpperCase()}${id}`
referralCode(username, id) == toUpperCase(slice(chars(username), 5)) \o decimal(id)

\* Array.from(map.values()).find(pred), given the keys whose value matches:
\* the first match in iteration order
FindFirst(m, hits) == IF hits = {} THEN Undefined ELSE m[Min(hits)]

getUserByUsername(self, username) ==
  FindFirst(self.users,
            {k \in DOMAIN self.users : self.users[k].username = username})

getUserByEmail(self, email) ==
  FindFirst(self.users,
            {k \in DOMAIN self.users : self.users[k].email = email})

getUserByWalletAddress(self, walletAddress) ==
  FindFirst(self.users,
            {k \in DOMAIN self.users :
               /\ "walletAddress" \in DOMAIN self.users[k]
               /\ self.users[k].walletAddress = walletAddress})

createUser(self, insertUser) ==
  LET id == self.userCurrentId
      user == Merge(insertUser,
                    [ id |-> id, createdAt |-> now, updatedAt |-> now,
                      twoFactorEnabled |-> FALSE, isVerified |-> FALSE,
                      totalTradingVolume |-> 0, rewardsPoints |-> 0,
                      referralCode |-> referralCode(insertUser.username, id) ])
  IN Out([self EXCEPT !.userCurrentId = id + 1,
                      !.users = MapSet(@, id, user)], user)

updateUser(self, id, data) ==
  LET user == getUser(self, id) IN
  IF user = Undefined THEN Out(self, Undefined)
  ELSE LET updatedUser == Merge(Merge(user, data), [updatedAt |-> now])
       IN Out([self EXCEPT !.users = MapSet(@, id, updatedUser)], updatedUser)

\* (a, b) => a - b: the comparator turned round
ascending(a, b) == a - b

\* (a, b) => b - a on the field both leaderboards sort by
descending(a, b) == b - a

\* one step of a stable sort over positions: position p goes after every
\* position already placed whose key does not compare greater than its own
InsertPosition(order, keys, p) ==
  LET after == {i \in 1..Len(order) : descending(keys[order[i]], keys[p]) <= 0}
      n == IF after = {} THEN 0 ELSE Max(after)
  IN SubSeq(order, 1, n) \o <<p>> \o SubSeq(order, n + 1, Len(order))

RECURSIVE SortPositions(_, _)
\* the positions 1..n of an array in the order sort() leaves them, given the
\* keys at those positions; Array.sort is stable
SortPositions(keys, n) ==
  IF n = 0 THEN <<>> ELSE InsertPosition(SortPositions(keys, n - 1), keys, n)

\* Array.from(this.users.values()).sort(by keys descending).slice(0, limit)
topUsers(self, keys, limit) ==
  LET all == Values(self.users)
      order == SortPositions(keys, Len(all))
  IN slice([i \in 1..Len(all) |-> all[order[i]]], limit)

getUsersByTradeVolume(self, limit) ==
  LET all == Values(self.users)
  IN topUsers(self, [i \in 1..Len(all) |-> all[i].totalTradingVolume], limit)

getUsersByRewardsPoints(self, limit) ==
  LET all == Values(self.users)
  IN topUsers(self, [i \in 1..Len(all) |-> all[i].rewardsPoints], limit)

\* { ...r, f: undefined } for every f in fields: the fields read as undefined
Clear(r, fields) == [f \in (DOMAIN r) \ fields |-> r[f]]

\* the lifetime of a reset token in ticks: setHours(getHours() + 1)
Hour == 1

\* holdsToken with >= for >: a token is still good at the instant it lapses
holdsTokenInclusive(user, resetToken) ==
  /\ "resetPasswordToken" \in DOMAIN user
  /\ user.resetPasswordToken = resetToken
  /\ "resetPasswordExpires" \in DOMAIN user
  /\ user.resetPasswordExpires >= now

\* the predicate resetPassword hands to find()
holdsToken(user, resetToken) ==
  /\ "resetPasswordToken" \in DOMAIN user
  /\ user.resetPasswordToken = resetToken
  /\ "resetPasswordExpires" \in DOMAIN user
  /\ user.resetPasswordExpires > now

\* resetPassword that leaves the token and its expiry on the user
resetPasswordKeepingToken(self, resetToken, newPassword) ==
  LET user == FindFirst(self.users,
                {k \in DOMAIN self.users : holdsToken(self.users[k], resetToken)})
  IN IF user = Undefined THEN Out(self, FALSE)
     ELSE LET updatedUser ==
                Merge(user, [password |-> newPassword, updatedAt |-> now])
          IN Out([self EXCEPT !.users = MapSet(@, user.id, updatedUser)], TRUE)

resetPassword(self, resetToken, newPassword) ==
  LET user == FindFirst(self.users,
                {k \in DOMAIN self.users : holdsToken(self.users[k], resetToken)})
  IN IF user = Undefined THEN Out(self, FALSE)
     ELSE LET updatedUser ==
                Merge(Clear(user, {"resetPasswordToken", "resetPasswordExpires"}),
                      [password |-> newPassword, updatedAt |-> now])
          IN Out([self EXCEPT !.users = MapSet(@, user.id, updatedUser)], TRUE)

\* resetToken is what the two Math.random() calls produced
generateResetToken(self, email, resetToken) ==
  LET user == getUserByEmail(self, email) IN
  IF user = Undefined THEN Out(self, Undefined)
  ELSE LET updatedUser ==
             Merge(user, [ resetPasswordToken |-> resetToken,
                           resetPasswordExpires |-> now + Hour,
                           updatedAt |-> now ])
       IN Out([self EXCEPT !.users = MapSet(@, user.id, updatedUser)], resetToken)

(***************************************************************************)
(* MemStorage: orders                                                      *)
(***************************************************************************)

getOrder(self, id) == MapGet(self.orders, id)

getUserOrders(self, userId) ==
  LET all == Values(self.orders)
  IN SelectIndices(all, {i \in 1..Len(all) : all[i].userId = userId})

\* every order stored as Filled, as Market orders are
initialStatusAlwaysFilled(order) == "Filled"

\* a freshly stored order's status
initialStatus(order) == IF order.type = "Market" THEN "Filled" ELSE "Open"

\* createOrder without the ++ on the counter: the next order reuses the id
createOrderNoIncrement(self, order) ==
  LET id == self.orderCurrentId
      newOrder == Merge(order, [ id |-> id, filled |-> 0,
                                 status |-> initialStatus(order),
                                 createdAt |-> now, updatedAt |-> now ])
  IN Out([self EXCEPT !.orders = MapSet(@, id, newOrder)], newOrder)

createOrder(self, order) ==
  LET id == self.orderCurrentId
      newOrder == Merge(order, [ id |-> id, filled |-> 0,
                                 status |-> initialStatus(order),
                                 createdAt |-> now, updatedAt |-> now ])
  IN Out([self EXCEPT !.orderCurrentId = id + 1,
                      !.orders = MapSet(@, id, newOrder)], newOrder)

updateOrder(self, id, data) ==
  LET order == getOrder(self, id) IN
  IF order = Undefined THEN Out(self, Undefined)
  ELSE LET updatedOrder == Merge(Merge(order, data), [updatedAt |-> now])
       IN Out([self EXCEPT !.orders = MapSet(@, id, updatedOrder)], updatedOrder)

(***************************************************************************)
(* MemStorage: trades                                                      *)
(***************************************************************************)

\* x || 0
OrZero(x) == IF x = 0 THEN 0 ELSE x

\* fillPatch with > for >=: an order filled exactly to its amount stays Partial
fillPatchStrict(order, trade) ==
  [ filled |-> OrZero(order.filled) + trade.amount,
    status |-> IF OrZero(order.filled) + trade.amount > order.amount
               THEN "Filled" ELSE "Partial" ]

\* the patch createTrade applies to an order it loaded
fillPatch(order, trade) ==
  [ filled |-> OrZero(order.filled) + trade.amount,
    status |-> IF OrZero(order.filled) + trade.amount >= order.amount
               THEN "Filled" ELSE "Partial" ]

\* if (order) await this.updateOrder(order.id, {...})
applyFill(self, order, trade) ==
  IF order = Undefined THEN self
  ELSE updateOrder(self, order.id, fillPatch(order, trade)).self

\* volumePatch that stores the trade's value instead of adding it
volumePatchOverwrite(user, trade) ==
  [ totalTradingVolume |-> trade.totalValue ]

\* the patch createTrade applies to the user behind an order
volumePatch(user, trade) ==
  [ totalTradingVolume |-> OrZero(user.totalTradingVolume) + trade.totalValue ]

\* if (order) { const u = await this.getUser(order.userId); if (u) updateUser(...) }
applyVolume(self, order, trade) ==
  IF order = Undefined THEN self
  ELSE LET user == getUser(self, order.userId) IN
       IF user = Undefined THEN self
       ELSE updateUser(self, user.id, volumePatch(user, trade)).self

\* createTrade that loads the sell order only after it updated the buy order:
\* an order named on both sides is then filled twice by one trade
createTradeReloading(self, trade) ==
  LET id == self.tradeCurrentId
      newTrade == Merge(trade, [id |-> id, timestamp |-> now])
      s0 == [self EXCEPT !.tradeCurrentId = id + 1,
                         !.trades = MapSet(@, id, newTrade)]
      buyOrder == getOrder(s0, trade.buyOrderId)
      s1 == applyFill(s0, buyOrder, trade)
      sellOrder == getOrder(s1, trade.sellOrderId)
      s2 == applyFill(s1, sellOrder, trade)
      s3 == applyVolume(s2, buyOrder, trade)
      s4 == applyVolume(s3, sellOrder, trade)
  IN Out(s4, newTrade)

getTrade(self, id) == MapGet(self.trades, id)

\* createTrade that touches orders and users only when both orders exist
createTradeAllOrNothing(self, trade) ==
  LET id == self.tradeCurrentId
      newTrade == Merge(trade, [id |-> id, timestamp |-> now])
      s0 == [self EXCEPT !.tradeCurrentId = id + 1,
                         !.trades = MapSet(@, id, newTrade)]
      buyOrder == getOrder(s0, trade.buyOrderId)
      sellOrder == getOrder(s0, trade.sellOrderId)
      s2 == applyFill(applyFill(s0, buyOrder, trade), sellOrder, trade)
      s4 == applyVolume(applyVolume(s2, buyOrder, trade), sellOrder, trade)
  IN Out(IF buyOrder = Undefined \/ sellOrder = Undefined THEN s0 ELSE s4, newTrade)

createTrade(self, trade) ==
  LET id == self.tradeCurrentId
      newTrade == Merge(trade, [id |-> id, timestamp |-> now])
      s0 == [self EXCEPT !.tradeCurrentId = id + 1,
                         !.trades = MapSet(@, id, newTrade)]
      \* both orders are loaded before either is updated
      buyOrder == getOrder(s0, trade.buyOrderId)
      sellOrder == getOrder(s0, trade.sellOrderId)
      s1 == applyFill(s0, buyOrder, trade)
      s2 == applyFill(s1, sellOrder, trade)
      \* each user is loaded right before its own update
      s3 == applyVolume(s2, buyOrder, trade)
      s4 == applyVolume(s3, sellOrder, trade)
  IN Out(s4, newTrade)

(***************************************************************************)
(* MemStorage: rewards events and tier lookup                              *)
(***************************************************************************)

getRewardsEvent(self, id) == MapGet(self.rewardsEvents, id)

\* the patch createRewardsEvent applies to the user it loaded
pointsPatch(user, event) ==
  [ rewardsPoints |-> OrZero(user.rewardsPoints) + event.points ]

createRewardsEvent(self, event) ==
  LET id == self.rewardsEventCurrentId
      newEvent == Merge(event, [id |-> id, createdAt |-> now])
      s0 == [self EXCEPT !.rewardsEventCurrentId = id + 1,
                         !.rewardsEvents = MapSet(@, id, newEvent)]
      user == getUser(s0, event.userId)
      s1 == IF user = Undefined THEN s0
            ELSE updateUser(s0, user.id, pointsPatch(user, event)).self
  IN Out(s1, newEvent)

\* the comparator of tiers.sort: negative when a sorts before b
byPointsDescending(a, b) == b.pointsRequired - a.pointsRequired

\* one step of a stable sort: t goes after every element that does not
\* compare greater than it
InsertSorted(sorted, t) ==
  LET after == {i \in 1..Len(sorted) : byPointsDescending(sorted[i], t) <= 0}
      n == IF after = {} THEN 0 ELSE Max(after)
  IN SubSeq(sorted, 1, n) \o <<t>> \o SubSeq(sorted, n + 1, Len(sorted))

RECURSIVE SortTiers(_)
\* tiers.sort((a, b) => b.pointsRequired - a.pointsRequired); Array.sort is stable
SortTiers(tiers) ==
  IF tiers = <<>> THEN <<>>
  ELSE InsertSorted(SortTiers(SubSeq(tiers, 1, Len(tiers) - 1)), tiers[Len(tiers)])

\* the loop's test with > for >=: a user exactly on a threshold misses its tier
qualifiesStrictly(user, tier) == user.rewardsPoints > tier.pointsRequired

\* the test of the loop over the sorted tiers
qualifies(user, tier) == user.rewardsPoints >= tier.pointsRequired

\* return tiers[0], after the loop found nothing: sort() sorted `tiers` in
\* place, so `tiers` and `sortedTiers` are one array
fallbackTier(sortedTiers) ==
  IF sortedTiers = <<>> THEN Undefined ELSE sortedTiers[1]

getUserRewardsTier(self, userId) ==
  LET user == getUser(self, userId) IN
  IF user = Undefined THEN Undefined
  ELSE LET sortedTiers == SortTiers(getAllRewardsTiers(self))
           hits == {i \in 1..Len(sortedTiers) : qualifies(user, sortedTiers[i])}
       IN IF hits # {} THEN sortedTiers[Min(hits)] ELSE fallbackTier(sortedTiers)

(***************************************************************************)
(* MemStorage: news articles and subscribers                               *)
(***************************************************************************)

\* an undated article taken as the newest instead of as the epoch
publishTimeUndatedNewest(article) ==
  IF "publishDate" \in DOMAIN article THEN article.publishDate ELSE 1000

\* a.publishDate || new Date(0), as a time
publishTime(article) ==
  IF "publishDate" \in DOMAIN article THEN article.publishDate ELSE 0

\* limit is 0 when the caller passes none: `limit ? slice(0, limit) : all`
getPublishedNewsArticles(self, limit) ==
  LET all == Values(self.newsArticles)
      published ==
        SelectIndices(all, {i \in 1..Len(all) :
                              "isPublished" \in DOMAIN all[i] /\ all[i].isPublished})
      order == SortPositions([i \in 1..Len(published) |-> publishTime(published[i])],
                             Len(published))
      publishedArticles == [i \in 1..Len(published) |-> published[order[i]]]
  IN IF limit # 0 THEN slice(publishedArticles, limit) ELSE publishedArticles

\* createNewsArticle that stores every article as a draft
createNewsArticleAsDraft(self, article) ==
  LET id == self.newsArticleCurrentId
      newArticle == Merge(article, [id |-> id, isPublished |-> FALSE])
  IN Out([self EXCEPT !.newsArticleCurrentId = id + 1,
                      !.newsArticles = MapSet(@, id, newArticle)], newArticle)

createNewsArticle(self, article) ==
  LET id == self.newsArticleCurrentId
      newArticle == Merge(article, [id |-> id])
  IN Out([self EXCEPT !.newsArticleCurrentId = id + 1,
                      !.newsArticles = MapSet(@, id, newArticle)], newArticle)

getNewsArticle(self, id) == MapGet(self.newsArticles, id)

updateNewsArticle(self, id, data) ==
  LET article == getNewsArticle(self, id) IN
  IF article = Undefined THEN Out(self, Undefined)
  ELSE LET updatedArticle == Merge(article, data)
       IN Out([self EXCEPT !.newsArticles = MapSet(@, id, updatedArticle)],
              updatedArticle)

createSubscriber(self, insertSubscriber) ==
  LET id == self.subscriberCurrentId
      subscriber == Merge(insertSubscriber,
                          [id |-> id, subscribedAt |-> now, isActive |-> TRUE])
  IN Out([self EXCEPT !.subscriberCurrentId = id + 1,
                      !.subscribers = MapSet(@, id, subscriber)], subscriber)

getSubscriberByEmail(self, email) ==
  FindFirst(self.subscribers,
            {k \in DOMAIN self.subscribers : self.subscribers[k].email = email})

getAllSubscribers(self) ==
  LET all == Values(self.subscribers)
  IN SelectIndices(all, {i \in 1..Len(all) : all[i].isActive})

\* unsubscribeFound as a hard delete: the record leaves the map
unsubscribeRemoving(self, subscriber) ==
  IF subscriber = Undefined THEN Out(self, FALSE)
  ELSE Out([self EXCEPT !.subscribers =
              [k \in (DOMAIN @) \ {subscriber.id} |-> @[k]]], TRUE)

\* the part of unsubscribe after its await, for the subscriber it found
unsubscribeFound(self, subscriber) ==
  IF subscriber = Undefined THEN Out(self, FALSE)
  ELSE LET updatedSubscriber == Merge(subscriber, [isActive |-> FALSE])
       IN Out([self EXCEPT !.subscribers =
                 MapSet(@, subscriber.id, updatedSubscriber)], TRUE)

\* unsubscribe with nothing running between its lookup and its update
unsubscribe(self, email) ==
  unsubscribeFound(self, getSubscriberByEmail(self, email))

(***************************************************************************)
(* routes.ts: request handlers.  A response is [status, value]; a handler  *)
(* returns the store it leaves and its response.                           *)
(***************************************************************************)

\* the price the place-order handler falls back to: 0.0000327
DefaultPrice == 327

\* userId of the counter-order the place-order handler fabricates
SystemUserId == 999

Response(self, status, value) == Out(self, [status |-> status, value |-> value])

\* authMiddleware: the user-id header is a sequence, empty when the header is
\* missing, else holding Number(header); answers the user or Undefined (401)
authenticate(self, header) ==
  IF header = <<>> THEN Undefined ELSE getUser(self, header[1])

\* POST /api/auth/register, for a body that passes registerUserSchema
register(self, body) ==
  IF getUserByUsername(self, body.username) # Undefined
  THEN Response(self, 400, "Username already taken")
  ELSE IF getUserByEmail(self, body.email) # Undefined
  THEN Response(self, 400, "Email already registered")
  ELSE LET out == createUser(self, body) IN Response(out.self, 201, out.ret)

\* !!data.price: the price is present and not 0
hasPrice(data) == "price" \in DOMAIN data /\ data.price # 0

\* validatedData.price || 0.0000327
priceOr(data) == IF hasPrice(data) THEN data.price ELSE DefaultPrice

\* order.side === 'Buy' ? 'Sell' : 'Buy'
matchingSide(order) == IF order.side = "Buy" THEN "Sell" ELSE "Buy"

matchingOrderData(order, data) ==
  [ userId |-> SystemUserId, tradingPairId |-> order.tradingPairId,
    type |-> "Limit", side |-> matchingSide(order), price |-> priceOr(data),
    amount |-> order.amount ]

tradeData(order, matchingOrder, data, pair) ==
  [ buyOrderId |-> IF order.side = "Buy" THEN order.id ELSE matchingOrder.id,
    sellOrderId |-> IF order.side = "Sell" THEN order.id ELSE matchingOrder.id,
    tradingPairId |-> order.tradingPairId,
    price |-> priceOr(data),
    amount |-> order.amount,
    totalValue |-> priceOr(data) * order.amount,
    fee |-> priceOr(data) * order.amount * pair.tradingFee ]

\* Math.floor(tradeData.totalValue / 100): 1 point per 100 traded
rewardsData(user, trade) ==
  [ userId |-> user.id, eventType |-> "Trade",
    points |-> trade.totalValue \div (100 * PriceScale),
    description |-> "Earned points for trading" ]

\* the simulated execution of a stored Market order
executeMarketOrder(self, user, order, data, pair) ==
  LET m == createOrder(self, matchingOrderData(order, data))
      trade == tradeData(order, m.ret, data, pair)
      t == createTrade(m.self, trade)
  IN createRewardsEvent(t.self, rewardsData(user, trade)).self

\* pair.maxTradeAmount && amount > pair.maxTradeAmount
aboveMaximum(pair, amount) ==
  /\ "maxTradeAmount" \in DOMAIN pair
  /\ pair.maxTradeAmount # 0
  /\ amount > pair.maxTradeAmount

\* the place-order handler storing the order before it validates the amount
\* and the price
placeOrderStoringFirst(self, header, body) ==
  LET user == authenticate(self, header) IN
  IF user = Undefined THEN Response(self, 401, "Authentication required")
  ELSE
    LET validatedData == Merge(body, [userId |-> user.id])
        pair == getTradingPair(self, validatedData.tradingPairId)
    IN
    IF pair = Undefined THEN Response(self, 404, "Trading pair not found")
    ELSE
      LET o == createOrder(self, validatedData)
          done == IF o.ret.type = "Market"
                  THEN executeMarketOrder(o.self, user, o.ret, validatedData, pair)
                  ELSE o.self
      IN
      IF validatedData.amount < pair.minTradeAmount
      THEN Response(o.self, 400, "Order amount below minimum")
      ELSE IF aboveMaximum(pair, validatedData.amount)
      THEN Response(o.self, 400, "Order amount above maximum")
      ELSE IF validatedData.type = "Limit" /\ ~hasPrice(validatedData)
      THEN Response(o.self, 400, "Price required for limit orders")
      ELSE Response(done, 201, o.ret)

\* POST /api/trading/orders, for a body that passes insertOrderSchema
placeOrder(self, header, body) ==
  LET user == authenticate(self, header) IN
  IF user = Undefined THEN Response(self, 401, "Authentication required")
  ELSE
    LET validatedData == Merge(body, [userId |-> user.id])
        pair == getTradingPair(self, validatedData.tradingPairId)
    IN
    IF pair = Undefined THEN Response(self, 404, "Trading pair not found")
    ELSE IF validatedData.amount < pair.minTradeAmount
    THEN Response(self, 400, "Order amount below minimum")
    ELSE IF aboveMaximum(pair, validatedData.amount)
    THEN Response(self, 400, "Order amount above maximum")
    ELSE IF validatedData.type = "Limit" /\ ~hasPrice(validatedData)
    THEN Response(self, 400, "Price required for limit orders")
    ELSE
      LET o == createOrder(self, validatedData)
          done == IF o.ret.type = "Market"
                  THEN executeMarketOrder(o.self, user, o.ret, validatedData, pair)
                  ELSE o.self
      IN Response(done, 201, o.ret)

\* the user id adminMiddleware lets through
AdminUserId == 1

\* PATCH /api/admin/users/:id behind authMiddleware and adminMiddleware, for
\* a numeric :id
adminUpdateUser(self, header, id, body) ==
  LET user == authenticate(self, header) IN
  IF user = Undefined THEN Response(self, 401, "Authentication required")
  ELSE IF user.id # AdminUserId THEN Response(self, 403, "Admin access required")
  ELSE IF getUser(self, id) = Undefined THEN Response(self, 404, "User not found")
  ELSE LET out == updateUser(self, id, body) IN Response(out.self, 200, out.ret)

(***************************************************************************)
(* Bounds and input sets                                                   *)
(***************************************************************************)

\* how many users, orders, trades, events, added tiers, articles and
\* subscribers a run creates
MaxUsers == 2

MaxOrders == 2

MaxTrades == 2

MaxEvents == 2

MaxNewTiers == 1

MaxNewPairs == 1

MaxNews == 1

MaxSubscribers == 1

\* the ids the constructor hands out before any caller runs
SeededPairs == 3

SeededTiers == 4

\* the i-th registrant
insertUserOf(i) ==
  IF i = 1 THEN [username |-> "alice", email |-> "alice@x.com"]
  ELSE IF i = 2 THEN [username |-> "bob", email |-> "bob@x.com"]
  ELSE [username |-> "carol", email |-> "carol@x.com"]

InsertUsers == {insertUserOf(i) : i \in 1..3}

\* the user ids and order ids a caller names; an id names nothing until the
\* create call that assigns it has run
UserIds == {1, 2}

OrderIds == {1, 2}

OrderTypes == {"Market", "Limit"}

OrderAmounts == {1, 2}

\* trade amounts: under, at and over an order's amount, and a negative one
TradeAmounts == {-1, 1, 2}

TradeValues == {5}

\* points of an event: they reach and cross every seeded threshold
EventPoints == {-1, 1000, 5000}

\* thresholds of tiers added after construction
TierPoints == {-500, 1000, 2500}

\* PATCH bodies for a user's aggregates
PointsPatches == {[rewardsPoints |-> p] : p \in {0, 1000}}

(***************************************************************************)
(* Store calls as steps: each call runs to completion                      *)
(***************************************************************************)

Init ==
  /\ now = 0
  /\ storage = constructor
  /\ ret = [op |-> "constructor", value |-> Undefined]
  /\ issued = EmptyMap
  /\ inflight = EmptyMap

\* the step of a call that returned `out`
Return(op, out) ==
  /\ storage' = out.self
  /\ ret' = [op |-> op, value |-> out.ret]
  /\ UNCHANGED <<now, issued, inflight>>

CreateUser(insertUser) ==
  /\ storage.userCurrentId <= MaxUsers
  /\ Return("createUser", createUser(storage, insertUser))

UpdateUser(id, data) ==
  Return("updateUser", updateUser(storage, id, data))

CreateOrder(order) ==
  /\ storage.orderCurrentId <= MaxOrders
  /\ Return("createOrder", createOrder(storage, order))

CreateTrade(trade) ==
  /\ storage.tradeCurrentId <= MaxTrades
  /\ Return("createTrade", createTrade(storage, trade))

CreateRewardsEvent(event) ==
  /\ storage.rewardsEventCurrentId <= MaxEvents
  /\ Return("createRewardsEvent", createRewardsEvent(storage, event))

CreateRewardsTier(tier) ==
  /\ storage.rewardsTierCurrentId <= SeededTiers + MaxNewTiers
  /\ Return("createRewardsTier", createRewardsTier(storage, tier))

CreateTradingPair(tradingPair) ==
  /\ storage.tradingPairCurrentId <= SeededPairs + MaxNewPairs
  /\ Return("createTradingPair", createTradingPair(storage, tradingPair))

CreateNewsArticle(article) ==
  /\ storage.newsArticleCurrentId <= MaxNews
  /\ Return("createNewsArticle", createNewsArticle(storage, article))

CreateSubscriber(insertSubscriber) ==
  /\ storage.subscriberCurrentId <= MaxSubscribers
  /\ Return("createSubscriber", createSubscriber(storage, insertSubscriber))

\* a read: the store is left alone, the caller gets the tier
GetUserRewardsTier(userId) ==
  /\ storage' = storage
  /\ ret' = [op |-> "getUserRewardsTier", userId |-> userId,
             value |-> getUserRewardsTier(storage, userId)]
  /\ UNCHANGED <<now, issued, inflight>>

(***************************************************************************)
(* SpecRewards: users, reward events, tiers                                *)
(***************************************************************************)

NextUser == CreateUser(insertUserOf(storage.userCurrentId))

NextRewardsEvent ==
  \E u \in UserIds, p \in EventPoints :
    CreateRewardsEvent([userId |-> u, eventType |-> "Trade", points |-> p,
                        description |-> "points"])

NextUpdateUser == \E u \in UserIds, d \in PointsPatches : UpdateUser(u, d)

NextRewardsTier ==
  \E p \in TierPoints :
    CreateRewardsTier([name |-> "Extra", pointsRequired |-> p,
                       tradingFeeDiscount |-> 5])

NextTierLookup == \E u \in UserIds : GetUserRewardsTier(u)

NextRewards ==
  \/ NextUser
  \/ NextRewardsEvent
  \/ NextUpdateUser
  \/ NextRewardsTier
  \/ NextTierLookup

SpecRewards == Init /\ [][NextRewards]_vars

(***************************************************************************)
(* Rewards ledger and tier lookup: properties                              *)
(***************************************************************************)

\* the sum of points over the stored events of user id
LedgerPoints(id) ==
  LET events == storage.rewardsEvents
  IN SumOver([k \in DOMAIN events |-> events[k].points],
             {k \in DOMAIN events : events[k].userId = id})

\* C1: for every stored user u, u.rewardsPoints equals the sum of points over
\* the stored rewards events whose userId is u.id.
C1_PointsEqualLedger ==
  \A k \in DOMAIN storage.users :
    storage.users[k].rewardsPoints = LedgerPoints(storage.users[k].id)

\* the thresholds of the stored tiers that `points` meets
MetThresholds(points) ==
  {storage.rewardsTiers[k].pointsRequired : k \in
     {j \in DOMAIN storage.rewardsTiers :
        storage.rewardsTiers[j].pointsRequired <= points}}

AllThresholds ==
  {storage.rewardsTiers[k].pointsRequired : k \in DOMAIN storage.rewardsTiers}

\* the last call was getUserRewardsTier for a stored user
LookedUpStoredUser ==
  /\ ret.op = "getUserRewardsTier"
  /\ ret.userId \in DOMAIN storage.users

\* C5: when at least one tier has pointsRequired <= u.rewardsPoints,
\* getUserRewardsTier(u.id) returns a stored tier whose pointsRequired is the
\* largest pointsRequired that is <= u.rewardsPoints.
C5_TierIsHighestMet ==
  LookedUpStoredUser =>
    LET met == MetThresholds(storage.users[ret.userId].rewardsPoints)
    IN met # {} =>
         /\ \E k \in DOMAIN storage.rewardsTiers : storage.rewardsTiers[k] = ret.value
         /\ ret.value.pointsRequired = Max(met)

\* C5 witness: a user holding exactly a threshold's points was looked up and
\* got a tier above the zero-point one, past a later-added lower tier.
C5_Witness ==
  /\ LookedUpStoredUser
  /\ storage.users[ret.userId].rewardsPoints = 5000
  /\ ret.value.name = "Gold"
  /\ \E k \in DOMAIN storage.rewardsTiers : storage.rewardsTiers[k].name = "Extra"

C7_TierMonotone ==
  [][ ( /\ LookedUpStoredUser
        /\ ret'.op = "getUserRewardsTier"
        /\ ret'.userId \in DOMAIN storage.users
        /\ storage.users[ret.userId].rewardsPoints
             <= storage.users[ret'.userId].rewardsPoints )
      => ret.value.pointsRequired <= ret'.value.pointsRequired ]_vars

(***************************************************************************)
(* Spec: orders and trades (order status; no user is stored, so the        *)
(* volume updates of createTrade find no user)                             *)
(***************************************************************************)

\* an order as a caller hands it to createOrder: a Limit order carries a price
insertOrderOf(userId, type, amount) ==
  IF type = "Limit"
  THEN [userId |-> userId, tradingPairId |-> 1, type |-> type, side |-> "Sell",
        price |-> 327, amount |-> amount]
  ELSE [userId |-> userId, tradingPairId |-> 1, type |-> type, side |-> "Buy",
        amount |-> amount]

insertTradeOf(buyOrderId, sellOrderId, amount, totalValue) ==
  [buyOrderId |-> buyOrderId, sellOrderId |-> sellOrderId, tradingPairId |-> 1,
   price |-> 327, amount |-> amount, totalValue |-> totalValue,
   fee |-> totalValue]

NextOrder ==
  \E ty \in OrderTypes, a \in OrderAmounts : CreateOrder(insertOrderOf(1, ty, a))

NextTrade ==
  \E b \in OrderIds, s \in OrderIds, a \in TradeAmounts, v \in TradeValues :
    CreateTrade(insertTradeOf(b, s, a, v))

Next ==
  \/ NextOrder
  \/ NextTrade

Spec == Init /\ [][Next]_vars

(***************************************************************************)
(* SpecVolume: users, their orders, and trades between them                *)
(***************************************************************************)

NextOwnedOrder == \E u \in UserIds : CreateOrder(insertOrderOf(u, "Limit", 2))

NextValuedTrade ==
  \E b \in OrderIds, s \in OrderIds, a \in OrderAmounts, v \in TradeValues :
    CreateTrade(insertTradeOf(b, s, a, v))

NextVolume ==
  \/ NextUser
  \/ NextOwnedOrder
  \/ NextValuedTrade

SpecVolume == Init /\ [][NextVolume]_vars

(***************************************************************************)
(* Order and trade ledger: properties                                      *)
(***************************************************************************)

\* the stored trades that name order id on either side, each trade once
TradesOn(id) ==
  {k \in DOMAIN storage.trades :
     \/ storage.trades[k].buyOrderId = id
     \/ storage.trades[k].sellOrderId = id}

TradedAmount(id) ==
  SumOver([k \in DOMAIN storage.trades |-> storage.trades[k].amount], TradesOn(id))

C8_StatusOnlyAdvances ==
  [][ \A k \in DOMAIN storage.orders :
        /\ storage.orders[k].status = "Filled"
             => storage'.orders[k].status = "Filled"
        /\ storage.orders[k].status = "Partial"
             => storage'.orders[k].status # "Open" ]_vars

\* the step is a completed createTrade(t), t being ret'.value
TradeCreated ==
  /\ ret'.op = "createTrade"
  /\ ret'.value.id = storage.tradeCurrentId
  /\ storage'.tradeCurrentId = storage.tradeCurrentId + 1

\* the trade's two orders and their owners are stored before the call
TradeFullyLinked(t) ==
  /\ t.buyOrderId \in DOMAIN storage.orders
  /\ t.sellOrderId \in DOMAIN storage.orders
  /\ storage.orders[t.buyOrderId].userId \in DOMAIN storage.users
  /\ storage.orders[t.sellOrderId].userId \in DOMAIN storage.users

\* both orders' filled grow by exactly t.amount
FilledGrowsByAmount(t) ==
  \A id \in {t.buyOrderId, t.sellOrderId} :
    storage'.orders[id].filled = storage.orders[id].filled + t.amount

\* how many sides of t belong to user u
SidesOwned(t, u) ==
  (IF storage.orders[t.buyOrderId].userId = u THEN 1 ELSE 0)
  + (IF storage.orders[t.sellOrderId].userId = u THEN 1 ELSE 0)

\* C4 as stated: createTrade(t) leaves both orders' filled exactly t.amount
\* larger and the buyer's and the seller's totalTradingVolume each exactly
\* t.totalValue larger, whether or not the orders or owners are distinct.
C4_TradeAddsAmountAndValue ==
  [][ (TradeCreated /\ TradeFullyLinked(ret'.value)) =>
        LET t == ret'.value IN
        /\ FilledGrowsByAmount(t)
        /\ \A id \in {t.buyOrderId, t.sellOrderId} :
             LET u == storage.orders[id].userId IN
             storage'.users[u].totalTradingVolume
               = storage.users[u].totalTradingVolume + t.totalValue ]_vars

\* C4 amended: both orders' filled grow by exactly t.amount (once, also when
\* one order is on both sides); each owner's totalTradingVolume grows by
\* t.totalValue once per side of the trade that owner is on, so by
\* 2 * t.totalValue when one user owns both sides.
C4_TradeAddsAmountAndValuePerSide ==
  [][ (TradeCreated /\ TradeFullyLinked(ret'.value)) =>
        LET t == ret'.value IN
        /\ FilledGrowsByAmount(t)
        /\ \A id \in {t.buyOrderId, t.sellOrderId} :
             LET u == storage.orders[id].userId IN
             storage'.users[u].totalTradingVolume
               = storage.users[u].totalTradingVolume
                   + SidesOwned(t, u) * t.totalValue ]_vars

\* C4 witness: after a second trade, this one between two orders of one user,
\* that user's volume stands at a total other than the trade's value.
C4_Witness ==
  /\ ret.op = "createTrade"
  /\ ret.value.id = 2
  /\ ret.value.buyOrderId # ret.value.sellOrderId
  /\ {ret.value.buyOrderId, ret.value.sellOrderId} \subseteq DOMAIN storage.orders
  /\ storage.orders[ret.value.buyOrderId].userId
       = storage.orders[ret.value.sellOrderId].userId
  /\ LET u == storage.orders[ret.value.buyOrderId].userId IN
     /\ u \in DOMAIN storage.users
     /\ storage.users[u].totalTradingVolume = 4 * ret.value.totalValue

(***************************************************************************)
(* SpecApi: requests to the register and place-order routes                *)
(***************************************************************************)

\* the user-id headers of requests: missing, or naming an id
Headers == {<<>>} \cup {<<u>> : u \in UserIds}

\* insertOrderSchema takes any text as type and as side
BodyTypes == {"Market", "Limit"}

BodySides == {"Buy", "Sell", "buy"}

\* a pair id that is seeded and one that is not
BodyPairIds == {1, 9}

\* amounts just outside and on the seeded limits
BodyAmounts == {99, 100, 1000000, 1000001}

\* 0.0002
BodyPrices == {2000}

OrderBodies ==
  LET Base == [tradingPairId : BodyPairIds, type : BodyTypes, side : BodySides,
               amount : BodyAmounts]
  IN Base \cup {Merge(b, [price |-> p]) : b \in Base, p \in BodyPrices}

\* the step of a request the handler answered with `out`
Respond(op, out) ==
  /\ storage' = out.self
  /\ ret' = [op |-> op, status |-> out.ret.status, value |-> out.ret.value]
  /\ UNCHANGED <<now, issued, inflight>>

Register(body) ==
  /\ storage.userCurrentId <= MaxUsers
  /\ Respond("POST /api/auth/register", register(storage, body))

PlaceOrder(header, body) ==
  /\ storage.orderCurrentId + 1 <= MaxOrders
  /\ storage.tradeCurrentId <= MaxTrades
  /\ storage.rewardsEventCurrentId <= MaxEvents
  /\ Respond("POST /api/trading/orders", placeOrder(storage, header, body))

NextRegister == \E b \in InsertUsers : Register(b)

NextPlaceOrder == \E h \in Headers, b \in OrderBodies : PlaceOrder(h, b)

NextApi ==
  \/ NextRegister
  \/ NextPlaceOrder

SpecApi == Init /\ [][NextApi]_vars

(***************************************************************************)
(* Place-order route: properties                                           *)
(***************************************************************************)

\* the step is a place-order request answered 201 for a new Market order,
\* the order being ret'.value
MarketOrderPlaced ==
  /\ ret'.op = "POST /api/trading/orders"
  /\ ret'.status = 201
  /\ ret'.value.type = "Market"
  /\ ret'.value.id = storage.orderCurrentId
  /\ storage'.orderCurrentId > storage.orderCurrentId

\* C9: after a place-order request for a Market order with an amount inside
\* the pair's limits, the user's order is stored Filled with filled = amount,
\* there is exactly one new counter-order (opposite side, same pair and
\* amount) and exactly one new trade linking the user's order, on its own
\* side, to the counter-order, and the requesting user's totalTradingVolume
\* is larger by exactly the trade's totalValue.
C9_MarketOrderSelfFills ==
  [][ MarketOrderPlaced =>
        LET o == ret'.value
            counters == (DOMAIN storage'.orders \ DOMAIN storage.orders) \ {o.id}
            newTrades == DOMAIN storage'.trades \ DOMAIN storage.trades
        IN
        /\ storage'.orders[o.id].status = "Filled"
        /\ storage'.orders[o.id].filled = o.amount
        /\ Cardinality(counters) = 1
        /\ Cardinality(newTrades) = 1
        /\ \A c \in counters, t \in newTrades :
             /\ storage'.orders[c].tradingPairId = o.tradingPairId
             /\ storage'.orders[c].amount = o.amount
             /\ o.side = "Buy" => storage'.orders[c].side = "Sell"
             /\ o.side = "Sell" => storage'.orders[c].side = "Buy"
             /\ {storage'.trades[t].buyOrderId, storage'.trades[t].sellOrderId}
                  = {o.id, c}
             /\ o.side = "Buy" => storage'.trades[t].buyOrderId = o.id
             /\ o.side = "Sell" => storage'.trades[t].sellOrderId = o.id
             /\ storage'.users[o.userId].totalTradingVolume
                  = storage.users[o.userId].totalTradingVolume
                      + storage'.trades[t].totalValue ]_vars

(***************************************************************************)
(* SpecCreate: the create call of every entity type                        *)
(***************************************************************************)

NextLimitOrder == CreateOrder(insertOrderOf(1, "Limit", 2))

NextSelfTrade == CreateTrade(insertTradeOf(1, 1, 1, 5))

NextSignupEvent ==
  CreateRewardsEvent([userId |-> 1, eventType |-> "Signup", points |-> 1000,
                      description |-> "points"])

NextExtraTier ==
  CreateRewardsTier([name |-> "Extra", pointsRequired |-> 2500,
                     tradingFeeDiscount |-> 5])

NextTradingPair == CreateTradingPair(seedPair("ETH"))

NextNewsArticle ==
  CreateNewsArticle([title |-> "Launch", content |-> "text",
                     isPublished |-> TRUE])

NextSubscriber == CreateSubscriber([email |-> "bob@x.com"])

NextCreate ==
  \/ NextUser
  \/ NextTradingPair
  \/ NextLimitOrder
  \/ NextSelfTrade
  \/ NextSignupEvent
  \/ NextExtraTier
  \/ NextNewsArticle
  \/ NextSubscriber

SpecCreate == Init /\ [][NextCreate]_vars

\* the entity maps of the store
EntityMaps ==
  {"users", "tradingPairs", "orders", "trades", "rewardsEvents", "rewardsTiers",
   "newsArticles", "subscribers"}

\* the create call that fills map m
CreateOp(m) ==
  CASE m = "users" -> "createUser"
    [] m = "tradingPairs" -> "createTradingPair"
    [] m = "orders" -> "createOrder"
    [] m = "trades" -> "createTrade"
    [] m = "rewardsEvents" -> "createRewardsEvent"
    [] m = "rewardsTiers" -> "createRewardsTier"
    [] m = "newsArticles" -> "createNewsArticle"
    [] m = "subscribers" -> "createSubscriber"

\* no two stored records of one type share an id
IdsDistinct ==
  \A m \in EntityMaps :
    \A j, k \in DOMAIN storage[m] :
      storage[m][j].id = storage[m][k].id => j = k

\* a create call stores its record under a key no record had, equal to the
\* record's id and greater than every id stored before; nothing is dropped
IdsIncrease ==
  \A m \in EntityMaps :
    LET added == DOMAIN storage'[m] \ DOMAIN storage[m] IN
    /\ DOMAIN storage[m] \subseteq DOMAIN storage'[m]
    /\ \A k \in added :
         /\ storage'[m][k].id = k
         /\ \A j \in DOMAIN storage[m] : storage[m][j].id < k
    /\ ret'.op = CreateOp(m) => ret'.value.id \in added

\* C10: within each entity type every create call assigns an id strictly
\* greater than every id assigned earlier for that type (the seeded pairs
\* and tiers included), and no two stored records of a type share an id.
C10_IdsUniqueAndIncreasing == []IdsDistinct /\ [][IdsIncrease]_vars

\* C10 witness: ids were assigned past the seeded pairs and tiers, and to a
\* second order, trade and user.
C10_Witness ==
  /\ SeededPairs + 1 \in DOMAIN storage.tradingPairs
  /\ SeededTiers + 1 \in DOMAIN storage.rewardsTiers
  /\ 2 \in DOMAIN storage.orders
  /\ 2 \in DOMAIN storage.trades
  /\ 2 \in DOMAIN storage.users

(***************************************************************************)
(* SpecReset: password reset tokens against the clock                      *)
(***************************************************************************)

\* the last tick of the clock
MaxTime == 2

Tokens == {"t1", "t2"}

Passwords == {"newpw12345"}

Emails == {"alice@x.com", "bob@x.com", "nobody@x.com"}

\* time passes between calls
Tick ==
  /\ now < MaxTime
  /\ now' = now + 1
  /\ UNCHANGED <<storage, ret, issued, inflight>>

GenerateResetToken(email, resetToken) ==
  LET out == generateResetToken(storage, email, resetToken) IN
  /\ storage' = out.self
  /\ ret' = [op |-> "generateResetToken", email |-> email, value |-> out.ret]
  /\ issued' = IF getUserByEmail(storage, email) = Undefined THEN issued
                ELSE MapSet(issued, resetToken,
                            [ userId |-> getUserByEmail(storage, email).id,
                              expires |-> now + Hour, used |-> FALSE ])
  /\ UNCHANGED <<now, inflight>>

ResetPassword(resetToken, newPassword) ==
  LET out == resetPassword(storage, resetToken, newPassword) IN
  /\ storage' = out.self
  /\ ret' = [op |-> "resetPassword", token |-> resetToken,
             password |-> newPassword, value |-> out.ret]
  /\ issued' = IF resetToken \in DOMAIN issued
                THEN [issued EXCEPT ![resetToken].used = TRUE] ELSE issued
  /\ UNCHANGED <<now, inflight>>

NextAccount ==
  CreateUser(Merge(insertUserOf(storage.userCurrentId), [password |-> "secret"]))

NextResetToken == \E e \in Emails, t \in Tokens : GenerateResetToken(e, t)

NextResetPassword == \E t \in Tokens, p \in Passwords : ResetPassword(t, p)

NextReset ==
  \/ NextAccount
  \/ NextResetToken
  \/ NextResetPassword
  \/ Tick

SpecReset == Init /\ [][NextReset]_vars

\* the users holding resetToken with an expiry still ahead
Holders(resetToken) ==
  {k \in DOMAIN storage.users :
     /\ "resetPasswordToken" \in DOMAIN storage.users[k]
     /\ storage.users[k].resetPasswordToken = resetToken
     /\ now < storage.users[k].resetPasswordExpires}

\* the step is a resetPassword(resetToken, ...) call
ResetCalled(resetToken) ==
  ret'.op = "resetPassword" /\ ret'.token = resetToken /\ now' = now

\* the step is a generateResetToken(email) call
GenerateCalled(email) ==
  ret'.op = "generateResetToken" /\ ret'.email = email /\ now' = now

\* after the step, user u has password p and neither token nor expiry
ResetDone(u, p) ==
  /\ storage'.users[u].password = p
  /\ "resetPasswordToken" \notin DOMAIN storage'.users[u]
  /\ "resetPasswordExpires" \notin DOMAIN storage'.users[u]

\* C11 as stated: once generateResetToken has returned T for u, the first
\* resetPassword(T, p) before the expiry returns true, sets u's password to p
\* and clears u's token and expiry; every later resetPassword(T, q) returns
\* false and changes no user.
C11_FirstResetWinsLaterFail ==
  [][\A t \in Tokens :
       (ResetCalled(t) /\ t \in DOMAIN issued) =>
         IF ~issued[t].used
         THEN (now < issued[t].expires) =>
                (ret'.value = TRUE /\ ResetDone(issued[t].userId, ret'.password))
         ELSE ret'.value = FALSE /\ storage'.users = storage.users]_vars

\* C11, amended: the first resetPassword(T, p) before the expiry succeeds on u
\* provided u still holds T and no user created before u holds T unexpired
\* too; a later resetPassword(T, q) returns false and changes no user
\* provided no user holds T unexpired.
C11_FirstResetWinsWhileTokenHeld ==
  [][\A t \in Tokens :
       (ResetCalled(t) /\ t \in DOMAIN issued) =>
         IF ~issued[t].used
         THEN (now < issued[t].expires /\ Holders(t) # {}
                 /\ Min(Holders(t)) = issued[t].userId) =>
                (ret'.value = TRUE /\ ResetDone(issued[t].userId, ret'.password))
         ELSE (Holders(t) = {}) =>
                (ret'.value = FALSE /\ storage'.users = storage.users)]_vars

\* a reset succeeded on a user, and a later call with the same token, still
\* inside its hour, was turned down
C11_Witness ==
  /\ ret.op = "resetPassword"
  /\ ret.value = FALSE
  /\ ret.token \in DOMAIN issued
  /\ now < issued[ret.token].expires
  /\ issued[ret.token].userId \in DOMAIN storage.users
  /\ storage.users[issued[ret.token].userId].password \in Passwords
  /\ Holders("t1") = {}
  /\ Holders("t2") = {}

\* C12: resetPassword with a token that no user holds, or that every holder
\* holds with an expiry at or before the current time, returns false and
\* leaves every user unchanged; generateResetToken for an email no user has
\* returns undefined and changes nothing.
C12_BadTokenOrEmailChangesNothing ==
  [][/\ \A t \in Tokens :
          (ResetCalled(t) /\ Holders(t) = {}) =>
            (ret'.value = FALSE /\ storage' = storage)
     /\ \A e \in Emails :
          (GenerateCalled(e) /\ getUserByEmail(storage, e) = Undefined) =>
            (ret'.value = Undefined /\ storage' = storage)]_vars

\* a resetPassword call was turned down for a token whose hour has run out
C12_Witness ==
  /\ ret.op = "resetPassword"
  /\ ret.value = FALSE
  /\ \E k \in DOMAIN storage.users :
       /\ "resetPasswordToken" \in DOMAIN storage.users[k]
       /\ storage.users[k].resetPasswordToken = ret.token
       /\ storage.users[k].resetPasswordExpires <= now

(***************************************************************************)
(* SpecAccounts: registration and the admin's user update                  *)
(***************************************************************************)

WalletAddresses == {"", "0xabc"}

\* registration bodies that pass registerUserSchema, confirmPassword taken
\* out: any username with any email, with or without a wallet address
RegisterBodies ==
  LET named == { [ username |-> insertUserOf(i).username,
                   email |-> insertUserOf(j).email,
                   password |-> "secret123" ] : i \in 1..2, j \in 1..2 }
  IN named \cup {Merge(b, [walletAddress |-> w]) : b \in named, w \in WalletAddresses}

\* bodies of the admin's PATCH: whatever JSON the caller sends
UserPatches ==
  {[username |-> insertUserOf(i).username] : i \in 1..2}
    \cup {[email |-> insertUserOf(i).email] : i \in 1..2}
    \cup {[walletAddress |-> w] : w \in WalletAddresses}

AdminUpdateUser(header, id, body) ==
  Respond("PATCH /api/admin/users/:id", adminUpdateUser(storage, header, id, body))

NextRegisterAccount == \E b \in RegisterBodies : Register(b)

NextAdminUpdateUser ==
  \E h \in Headers, id \in UserIds, b \in UserPatches : AdminUpdateUser(h, id, b)

NextAccounts ==
  \/ NextRegisterAccount
  \/ NextAdminUpdateUser

SpecAccounts == Init /\ [][NextAccounts]_vars

\* C13: no two stored users share a username and no two share an email.
C13_UsernamesAndEmailsUnique ==
  \A a, b \in DOMAIN storage.users :
    a # b => /\ storage.users[a].username # storage.users[b].username
             /\ storage.users[a].email # storage.users[b].email

\* the user's walletAddress is a non-empty string
hasWallet(user) == "walletAddress" \in DOMAIN user /\ user.walletAddress # ""

\* C14: no two stored users share the same non-empty walletAddress.
C14_WalletAddressesUnique ==
  \A a, b \in DOMAIN storage.users :
    (a # b /\ hasWallet(storage.users[a]) /\ hasWallet(storage.users[b]))
      => storage.users[a].walletAddress # storage.users[b].walletAddress

(***************************************************************************)
(* SpecNewsletter: subscribe and unsubscribe requests, interleaved at the  *)
(* awaits of their handlers.  inflight[r] is request r: its route, the     *)
(* await it is suspended at (pc), the locals of the handler and, once it   *)
(* has answered (pc = "done"), its response.                               *)
(***************************************************************************)

\* how many requests a run makes
MaxRequests == 3

SubscriberEmails == {"bob@x.com", "eve@x.com"}

\* request r is the next to arrive
Arrives(r) == r = Cardinality(DOMAIN inflight) + 1 /\ r <= MaxRequests

Suspend(r, frame) ==
  /\ inflight' = MapSet(inflight, r, frame)
  /\ UNCHANGED <<now, issued>>

Answer(r, status) ==
  /\ inflight' = MapSet(inflight, r,
                        Merge(inflight[r], [pc |-> "done", status |-> status]))
  /\ ret' = [op |-> inflight[r].route, status |-> status]
  /\ UNCHANGED <<now, issued>>

AtAwait(r, route, pc) ==
  r \in DOMAIN inflight /\ inflight[r].route = route /\ inflight[r].pc = pc

\* POST /api/subscribe up to `await storage.getSubscriberByEmail(...)`
SubscribeLookup(r, email) ==
  /\ Arrives(r)
  /\ Suspend(r, [ route |-> "POST /api/subscribe", pc |-> "lookup", email |-> email,
                  existingSubscriber |-> getSubscriberByEmail(storage, email) ])
  /\ UNCHANGED <<storage, ret>>

\* ... the 400, or on to `await storage.createSubscriber(...)`
SubscribeCreate(r) ==
  /\ AtAwait(r, "POST /api/subscribe", "lookup")
  /\ IF inflight[r].existingSubscriber # Undefined
     THEN Answer(r, 400) /\ UNCHANGED storage
     ELSE LET out == createSubscriber(storage, [email |-> inflight[r].email]) IN
          /\ storage' = out.self
          /\ Suspend(r, Merge(inflight[r], [pc |-> "create", subscriber |-> out.ret]))
          /\ UNCHANGED ret

\* ... the 201
SubscribeRespond(r) ==
  /\ AtAwait(r, "POST /api/subscribe", "create")
  /\ Answer(r, 201)
  /\ UNCHANGED storage

\* POST /api/unsubscribe up to the await inside storage.unsubscribe
UnsubscribeLookup(r, email) ==
  /\ Arrives(r)
  /\ Suspend(r, [ route |-> "POST /api/unsubscribe", pc |-> "lookup", email |-> email,
                  subscriber |-> getSubscriberByEmail(storage, email) ])
  /\ UNCHANGED <<storage, ret>>

\* ... the rest of storage.unsubscribe and the response
UnsubscribeRespond(r) ==
  /\ AtAwait(r, "POST /api/unsubscribe", "lookup")
  /\ LET out == unsubscribeFound(storage, inflight[r].subscriber) IN
     /\ storage' = out.self
     /\ Answer(r, IF out.ret THEN 200 ELSE 404)

Requests == 1..MaxRequests

NextSubscribeLookup == \E r \in Requests, e \in SubscriberEmails : SubscribeLookup(r, e)

NextSubscribeCreate == \E r \in Requests : SubscribeCreate(r)

NextSubscribeRespond == \E r \in Requests : SubscribeRespond(r)

NextUnsubscribeLookup ==
  \E r \in Requests, e \in SubscriberEmails : UnsubscribeLookup(r, e)

NextUnsubscribeRespond == \E r \in Requests : UnsubscribeRespond(r)

NextNewsletter ==
  \/ NextSubscribeLookup
  \/ NextSubscribeCreate
  \/ NextSubscribeRespond
  \/ NextUnsubscribeLookup
  \/ NextUnsubscribeRespond

SpecNewsletter == Init /\ [][NextNewsletter]_vars

SubscriberEmailsUnique ==
  \A a, b \in DOMAIN storage.subscribers :
    a # b => storage.subscribers[a].email # storage.subscribers[b].email

\* the subscribe requests that got as far as creating a record
Subscribed ==
  {r \in DOMAIN inflight :
     /\ inflight[r].route = "POST /api/subscribe"
     /\ \/ inflight[r].pc = "create"
        \/ inflight[r].pc = "done" /\ inflight[r].status = 201}

\* C15: under any interleaving of subscribe and unsubscribe requests no two
\* subscriber records share an email; a subscribe request that finds a record
\* with its email, active or not, answers 400; and only the requests that
\* were not turned down created a record.
C15_SubscriberEmailsUnique ==
  /\ SubscriberEmailsUnique
  /\ \A r \in DOMAIN inflight :
       (/\ inflight[r].route = "POST /api/subscribe"
        /\ inflight[r].pc = "done"
        /\ inflight[r].existingSubscriber # Undefined) => inflight[r].status = 400
  /\ Cardinality(DOMAIN storage.subscribers) = Cardinality(Subscribed)

(***************************************************************************)
(* SpecLifecycle: records are created and patched, subscribers switched    *)
(* off                                                                     *)
(***************************************************************************)

Unsubscribe(email) ==
  /\ storage' = unsubscribe(storage, email).self
  /\ ret' = [op |-> "unsubscribe", email |-> email,
             value |-> unsubscribe(storage, email).ret]
  /\ UNCHANGED <<now, issued, inflight>>

GetAllSubscribers ==
  /\ ret' = [op |-> "getAllSubscribers", value |-> getAllSubscribers(storage)]
  /\ UNCHANGED <<storage, now, issued, inflight>>

UpdateTradingPair(id, data) ==
  Return("updateTradingPair", updateTradingPair(storage, id, data))

UpdateNewsArticle(id, data) ==
  Return("updateNewsArticle", updateNewsArticle(storage, id, data))

UpdateOrder(id, data) ==
  Return("updateOrder", updateOrder(storage, id, data))

NextSubscriberRecord ==
  \E e \in SubscriberEmails : CreateSubscriber([email |-> e])

NextUnsubscribe == \E e \in SubscriberEmails : Unsubscribe(e)

NextPairSwitch ==
  \E a \in BOOLEAN : UpdateTradingPair(1, [isActive |-> a])

NextDraft ==
  CreateNewsArticle([title |-> "News", content |-> "Text", isPublished |-> FALSE])

NextPublish ==
  \E id \in 1..MaxNews : UpdateNewsArticle(id, [isPublished |-> TRUE])

NextMember == CreateUser(insertUserOf(storage.userCurrentId))

NextVerify == \E u \in UserIds : UpdateUser(u, [isVerified |-> TRUE])

NextOpenOrder == CreateOrder(insertOrderOf(1, "Limit", 2))

NextCancel == \E o \in OrderIds : UpdateOrder(o, [status |-> "Cancelled"])

NextLifecycle ==
  \/ NextSubscriberRecord
  \/ NextUnsubscribe
  \/ GetAllSubscribers
  \/ NextPairSwitch
  \/ NextDraft
  \/ NextPublish
  \/ NextMember
  \/ NextVerify
  \/ NextOpenOrder
  \/ NextCancel

SpecLifecycle == Init /\ [][NextLifecycle]_vars

\* the ids of the subscriber records with this email
WithEmail(email) ==
  {k \in DOMAIN storage.subscribers : storage.subscribers[k].email = email}

\* the step is unsubscribe(email) returning found; when found, the first
\* record with the email is switched off and nothing else changes
UnsubscribeSwitchesOff ==
  \A e \in SubscriberEmails :
    (ret'.op = "unsubscribe" /\ ret'.email = e) =>
      IF WithEmail(e) = {}
      THEN ret'.value = FALSE /\ storage' = storage
      ELSE LET id == Min(WithEmail(e)) IN
           /\ ret'.value = TRUE
           /\ storage' = [storage EXCEPT !.subscribers[id].isActive = FALSE]
           /\ \A i \in 1..Len(getAllSubscribers(storage')) :
                getAllSubscribers(storage')[i].id # id

NoRecordRemoved ==
  \A m \in EntityMaps : DOMAIN storage[m] \subseteq DOMAIN storage'[m]

\* what getAllSubscribers returned is the records that are switched on
ListedAreActive ==
  ret.op = "getAllSubscribers" =>
    /\ \A i \in 1..Len(ret.value) : storage.subscribers[ret.value[i].id].isActive
    /\ \A k \in DOMAIN storage.subscribers :
         storage.subscribers[k].isActive =>
           \E i \in 1..Len(ret.value) : ret.value[i] = storage.subscribers[k]

\* C20: no step removes a record from any entity map; unsubscribe(email)
\* keeps the record, sets its isActive to false and returns true, or returns
\* false and changes nothing when no record has the email; getAllSubscribers
\* lists exactly the records still active.
C20_NothingRemovedUnsubscribeIsSoft ==
  /\ []ListedAreActive
  /\ [][NoRecordRemoved /\ UnsubscribeSwitchesOff]_vars

\* a subscriber was switched off, is still stored, and the list that
\* getAllSubscribers returned leaves it out
C20_Witness ==
  /\ ret.op = "getAllSubscribers"
  /\ \E k \in DOMAIN storage.subscribers :
       /\ ~storage.subscribers[k].isActive
       /\ \A i \in 1..Len(ret.value) : ret.value[i].id # k

(***************************************************************************)
(* SpecBoard: the two leaderboards                                         *)
(***************************************************************************)

Limits == {0, 1, 2, 3}

\* aggregates as trades and reward events leave them
BoardPatches ==
  {[rewardsPoints |-> p] : p \in {150, 2000}}
    \cup {[totalTradingVolume |-> v] : v \in {5, 7}}

GetUsersByTradeVolume(limit) ==
  /\ ret' = [op |-> "getUsersByTradeVolume", limit |-> limit,
             value |-> getUsersByTradeVolume(storage, limit)]
  /\ UNCHANGED <<storage, now, issued, inflight>>

GetUsersByRewardsPoints(limit) ==
  /\ ret' = [op |-> "getUsersByRewardsPoints", limit |-> limit,
             value |-> getUsersByRewardsPoints(storage, limit)]
  /\ UNCHANGED <<storage, now, issued, inflight>>

NextBoardUser == CreateUser(insertUserOf(storage.userCurrentId))

NextBoardPatch == \E u \in UserIds, d \in BoardPatches : UpdateUser(u, d)

NextVolumeBoard == \E n \in Limits : GetUsersByTradeVolume(n)

NextPointsBoard == \E n \in Limits : GetUsersByRewardsPoints(n)

NextBoard ==
  \/ NextBoardUser
  \/ NextBoardPatch
  \/ NextVolumeBoard
  \/ NextPointsBoard

SpecBoard == Init /\ [][NextBoard]_vars

\* the score a leaderboard ranks a user by
Score(op, user) ==
  IF op = "getUsersByRewardsPoints" THEN user.rewardsPoints
  ELSE user.totalTradingVolume

\* `board` is the top `limit` of the stored users by Score(op, .): stored
\* users, each once, min(limit, number of users) of them, scores
\* non-increasing, equal scores in id order, nobody left out who scores more
\* than somebody listed
IsTop(op, board, limit) ==
  /\ Len(board) = Min({limit, Cardinality(DOMAIN storage.users)})
  /\ \A i \in 1..Len(board) :
       board[i].id \in DOMAIN storage.users /\ board[i] = storage.users[board[i].id]
  /\ \A i, j \in 1..Len(board) :
       i < j => /\ Score(op, board[i]) >= Score(op, board[j])
                /\ board[i].id # board[j].id
                /\ (Score(op, board[i]) = Score(op, board[j])
                      => board[i].id < board[j].id)
  /\ \A k \in DOMAIN storage.users :
       (\A i \in 1..Len(board) : board[i].id # k) =>
         \A i \in 1..Len(board) :
           Score(op, storage.users[k]) <= Score(op, board[i])

\* C16: for every limit n >= 0, getUsersByRewardsPoints(n) returns exactly
\* min(n, number of users) users in non-increasing order of rewardsPoints,
\* every user left out has no more points than any user returned, and equal
\* points appear in id order; getUsersByTradeVolume likewise on
\* totalTradingVolume.
C16_BoardIsTopN ==
  ret.op \in {"getUsersByRewardsPoints", "getUsersByTradeVolume"}
    => IsTop(ret.op, ret.value, ret.limit)

\* a board of one that lists the second user and leaves the first out
C16_Witness ==
  /\ ret.op = "getUsersByRewardsPoints"
  /\ ret.limit = 1
  /\ Len(ret.value) = 1
  /\ ret.value[1].id = 2
  /\ 1 \in DOMAIN storage.users

(***************************************************************************)
(* Trades that name a missing order or an order of a missing user          *)
(***************************************************************************)

\* the sides of t whose order is stored before the call
SidesPresent(t) ==
  {side \in {"buy", "sell"} :
     (IF side = "buy" THEN t.buyOrderId ELSE t.sellOrderId) \in DOMAIN storage.orders}

OrderOfSide(t, side) == IF side = "buy" THEN t.buyOrderId ELSE t.sellOrderId

\* the sides of t whose order is stored and belongs to user u
SidesPresentOwnedBy(t, u) ==
  {side \in SidesPresent(t) : storage.orders[OrderOfSide(t, side)].userId = u}

\* C17: createTrade(t) with a side whose order is not stored, or whose
\* order's owner is not stored, still stores and returns the trade, updates
\* the orders and owners that are stored as usual, and creates or changes no
\* order and no user for the missing side.
C17_DanglingSideIsSkipped ==
  [][ (TradeCreated /\ ~TradeFullyLinked(ret'.value)) =>
        LET t == ret'.value IN
        /\ storage'.trades = MapSet(storage.trades, t.id, t)
        /\ DOMAIN storage'.orders = DOMAIN storage.orders
        /\ DOMAIN storage'.users = DOMAIN storage.users
        /\ \A id \in DOMAIN storage.orders :
             IF id \in {t.buyOrderId, t.sellOrderId}
             THEN storage'.orders[id] =
                    Merge(storage.orders[id],
                          [ filled |-> storage.orders[id].filled + t.amount,
                            status |-> IF storage.orders[id].filled + t.amount
                                            >= storage.orders[id].amount
                                       THEN "Filled" ELSE "Partial",
                            updatedAt |-> now ])
             ELSE storage'.orders[id] = storage.orders[id]
        /\ \A u \in DOMAIN storage.users :
             IF SidesPresentOwnedBy(t, u) = {}
             THEN storage'.users[u] = storage.users[u]
             ELSE storage'.users[u] =
                    Merge(storage.users[u],
                          [ totalTradingVolume |->
                              storage.users[u].totalTradingVolume
                                + t.totalValue * Cardinality(SidesPresentOwnedBy(t, u)),
                            updatedAt |-> now ]) ]_vars

\* a trade was stored whose buy order and its owner took the fill and the
\* value while its sell order does not exist
C17_Witness ==
  /\ ret.op = "createTrade"
  /\ ret.value.id \in DOMAIN storage.trades
  /\ ret.value.sellOrderId \notin DOMAIN storage.orders
  /\ ret.value.buyOrderId \in DOMAIN storage.orders
  /\ storage.orders[ret.value.buyOrderId].filled > 0
  /\ storage.orders[ret.value.buyOrderId].userId \in DOMAIN storage.users
  /\ storage.users[storage.orders[ret.value.buyOrderId].userId].totalTradingVolume > 0

(***************************************************************************)
(* SpecRoundTrip: every create call, with its argument kept beside what it *)
(* returned                                                                *)
(***************************************************************************)

\* how many records a run creates, over all entity types
MaxRecords == 2

\* the records created since construction
RecordsCreated ==
  (storage.userCurrentId - 1) + (storage.tradingPairCurrentId - 1 - SeededPairs)
    + (storage.orderCurrentId - 1) + (storage.tradeCurrentId - 1)
    + (storage.rewardsEventCurrentId - 1)
    + (storage.rewardsTierCurrentId - 1 - SeededTiers)
    + (storage.newsArticleCurrentId - 1) + (storage.subscriberCurrentId - 1)

\* the step of create call `op` given x, which returned `out`
Created(op, x, out) ==
  /\ RecordsCreated < MaxRecords
  /\ storage' = out.self
  /\ ret' = [op |-> op, arg |-> x, value |-> out.ret]
  /\ UNCHANGED <<now, issued, inflight>>

\* x with or without each of the optional fields in `extra`
WithOptional(x, extra) ==
  {Merge(x, [f \in fs |-> extra[f]]) : fs \in SUBSET DOMAIN extra}

NewUsers ==
  WithOptional([username |-> "dave", email |-> "dave@x.com", password |-> "secret123"],
               [fullName |-> "Dave", walletAddress |-> "0xabc"])

NewPairs ==
  WithOptional([ baseAsset |-> "T&E", quoteAsset |-> "ETH", pairSymbol |-> "T&E/ETH",
                 minTradeAmount |-> 100 ],
               [maxTradeAmount |-> 1000000, isActive |-> FALSE])

NewOrders ==
  UNION { WithOptional([ userId |-> 1, tradingPairId |-> 1, type |-> t,
                         side |-> "Buy", amount |-> 100 ],
                       [price |-> 2000]) : t \in OrderTypes }

NewTrades == {insertTradeOf(1, 2, 100, 5)}

NewEvents ==
  WithOptional([ userId |-> 1, eventType |-> "Signup", points |-> 100,
                 description |-> "Welcome" ],
               [additionalData |-> "campaign"])

NewTiers ==
  WithOptional([name |-> "Diamond", pointsRequired |-> 50000],
               [tradingFeeDiscount |-> 40, icon |-> "gem"])

NewArticles ==
  WithOptional([title |-> "News", content |-> "Text"],
               [isPublished |-> TRUE, publishDate |-> 1])

NewSubscribers == {[email |-> e] : e \in SubscriberEmails}

RoundTripUser == \E x \in NewUsers : Created("createUser", x, createUser(storage, x))

RoundTripPair ==
  \E x \in NewPairs : Created("createTradingPair", x, createTradingPair(storage, x))

RoundTripOrder == \E x \in NewOrders : Created("createOrder", x, createOrder(storage, x))

RoundTripTrade == \E x \in NewTrades : Created("createTrade", x, createTrade(storage, x))

RoundTripEvent ==
  \E x \in NewEvents : Created("createRewardsEvent", x, createRewardsEvent(storage, x))

RoundTripTier ==
  \E x \in NewTiers : Created("createRewardsTier", x, createRewardsTier(storage, x))

RoundTripArticle ==
  \E x \in NewArticles : Created("createNewsArticle", x, createNewsArticle(storage, x))

RoundTripSubscriber ==
  \E x \in NewSubscribers : Created("createSubscriber", x, createSubscriber(storage, x))

NextRoundTrip ==
  \/ RoundTripUser
  \/ RoundTripPair
  \/ RoundTripOrder
  \/ RoundTripTrade
  \/ RoundTripEvent
  \/ RoundTripTier
  \/ RoundTripArticle
  \/ RoundTripSubscriber

SpecRoundTrip == Init /\ [][NextRoundTrip]_vars

\* what reading the record back by its id gives, per create call
ReadBack(op, id) ==
  CASE op = "createUser" -> getUser(storage, id)
    [] op = "createTradingPair" -> getTradingPair(storage, id)
    [] op = "createOrder" -> getOrder(storage, id)
    [] op = "createTrade" -> getTrade(storage, id)
    [] op = "createRewardsEvent" -> getRewardsEvent(storage, id)
    [] op = "createRewardsTier" -> MapGet(storage.rewardsTiers, id)
    [] op = "createNewsArticle" -> getNewsArticle(storage, id)
    [] op = "createSubscriber" -> MapGet(storage.subscribers, id)

\* the fields a create call may add to its argument, with the values the
\* claim names for the defaults
StoreSet(op, x, id) ==
  CASE op = "createUser" ->
         [ id |-> id, createdAt |-> now, updatedAt |-> now,
           twoFactorEnabled |-> FALSE, isVerified |-> FALSE,
           totalTradingVolume |-> 0, rewardsPoints |-> 0,
           referralCode |-> <<"D", "A", "V", "E">> \o decimal(id) ]
    [] op = "createOrder" ->
         [ id |-> id, createdAt |-> now, updatedAt |-> now, filled |-> 0,
           status |-> IF x.type = "Market" THEN "Filled" ELSE "Open" ]
    [] op = "createTrade" -> [id |-> id, timestamp |-> now]
    [] op = "createRewardsEvent" -> [id |-> id, createdAt |-> now]
    [] op = "createSubscriber" -> [id |-> id, subscribedAt |-> now, isActive |-> TRUE]
    [] OTHER -> [id |-> id]

\* C18: right after create(x) returned r, reading r.id back gives r; r has
\* every field of x with x's value, and beyond those only the id, the
\* timestamps and the store-set defaults.
C18_CreateRoundTrip ==
  "arg" \in DOMAIN ret =>
    LET r == ret.value
        x == ret.arg
    IN /\ ReadBack(ret.op, r.id) = r
       /\ \A f \in DOMAIN x : r[f] = x[f]
       /\ DOMAIN r = (DOMAIN x) \cup DOMAIN StoreSet(ret.op, x, r.id)
       /\ \A f \in DOMAIN StoreSet(ret.op, x, r.id) : r[f] = StoreSet(ret.op, x, r.id)[f]

\* an article given with its optional fields came back with them, after
\* another record was created before it
C18_Witness ==
  /\ "arg" \in DOMAIN ret
  /\ ret.op = "createNewsArticle"
  /\ "isPublished" \in DOMAIN ret.arg
  /\ ret.value.isPublished
  /\ RecordsCreated = 2

(***************************************************************************)
(* SpecRead: the read methods between writes                               *)
(***************************************************************************)

\* the tiers re-stored in the order getUserRewardsTier sorts them in
StoreSorted(self) ==
  LET sortedTiers == SortTiers(getAllRewardsTiers(self))
  IN [self EXCEPT !.rewardsTiers = [i \in 1..Len(sortedTiers) |-> sortedTiers[i]]]

\* a read whose sort lands in the store
ReadSortingStore(op, arg, value) ==
  /\ storage' = IF op = "getUserRewardsTier" THEN StoreSorted(storage) ELSE storage
  /\ ret' = [op |-> op, arg |-> arg, value |-> value]
  /\ UNCHANGED <<now, issued, inflight>>

\* the step of a read method: no statement of any of them assigns to a
\* field of the store or to a record in it
Read(op, arg, value) ==
  /\ storage' = storage
  /\ ret' = [op |-> op, arg |-> arg, value |-> value]
  /\ UNCHANGED <<now, issued, inflight>>

ReadById ==
  \/ \E id \in UserIds : Read("getUser", id, getUser(storage, id))
  \/ \E id \in {1, 9} : Read("getTradingPair", id, getTradingPair(storage, id))
  \/ \E id \in OrderIds : Read("getOrder", id, getOrder(storage, id))
  \/ \E id \in {1} : Read("getNewsArticle", id, getNewsArticle(storage, id))

ReadFindBy ==
  \/ \E i \in 1..2 :
       Read("getUserByUsername", insertUserOf(i).username,
            getUserByUsername(storage, insertUserOf(i).username))
  \/ \E i \in 1..2 :
       Read("getUserByEmail", insertUserOf(i).email,
            getUserByEmail(storage, insertUserOf(i).email))
  \/ \E w \in WalletAddresses :
       Read("getUserByWalletAddress", w, getUserByWalletAddress(storage, w))
  \/ \E e \in SubscriberEmails :
       Read("getSubscriberByEmail", e, getSubscriberByEmail(storage, e))

ReadList ==
  \/ Read("getAllRewardsTiers", 0, getAllRewardsTiers(storage))
  \/ \E a \in BOOLEAN : Read("getAllTradingPairs", a, getAllTradingPairs(storage, a))
  \/ \E u \in UserIds : Read("getUserOrders", u, getUserOrders(storage, u))
  \/ Read("getAllSubscribers", 0, getAllSubscribers(storage))
  \/ \E n \in {0, 1} :
       Read("getPublishedNewsArticles", n, getPublishedNewsArticles(storage, n))

ReadRanking ==
  \/ \E u \in UserIds : Read("getUserRewardsTier", u, getUserRewardsTier(storage, u))
  \/ \E n \in {1, 2} :
       Read("getUsersByTradeVolume", n, getUsersByTradeVolume(storage, n))
  \/ \E n \in {1, 2} :
       Read("getUsersByRewardsPoints", n, getUsersByRewardsPoints(storage, n))

NextReadUser ==
  CreateUser(Merge(insertUserOf(storage.userCurrentId), [walletAddress |-> "0xabc"]))

NextReadTier ==
  CreateRewardsTier([name |-> "Extra", pointsRequired |-> 50,
                     tradingFeeDiscount |-> 5])

NextReadSubscriber == CreateSubscriber([email |-> "bob@x.com"])

NextReadArticle ==
  \E p \in BOOLEAN :
    CreateNewsArticle([title |-> "News", content |-> "Text", isPublished |-> p])

NextRead ==
  \/ NextReadUser
  \/ NextReadTier
  \/ NextReadArticle
  \/ NextReadSubscriber
  \/ NextOpenOrder
  \/ ReadById
  \/ ReadFindBy
  \/ ReadList
  \/ ReadRanking

SpecRead == Init /\ [][NextRead]_vars

ReadOps ==
  { "getUser", "getTradingPair", "getOrder", "getNewsArticle",
    "getUserByUsername", "getUserByEmail", "getUserByWalletAddress",
    "getSubscriberByEmail", "getAllRewardsTiers", "getAllTradingPairs",
    "getUserOrders", "getAllSubscribers", "getPublishedNewsArticles",
    "getUserRewardsTier", "getUsersByTradeVolume", "getUsersByRewardsPoints" }

MaxArticles == 3

\* the limit GET /api/news falls back to
DefaultLimit == 10

\* publish dates before the epoch, after it, and later still
PublishDates == {-1, 1, 2}

\* articles as insertNewsArticleSchema lets them through: isPublished and
\* publishDate are optional
ArticleInputs ==
  LET Base == {[title |-> "News", content |-> "Text"]}
      Flagged == Base \cup {Merge(b, [isPublished |-> p]) : b \in Base, p \in BOOLEAN}
  IN Flagged \cup {Merge(b, [publishDate |-> d]) : b \in Flagged, d \in PublishDates}

\* Number(req.query.limit) || 10; query is 0 for a missing or non-numeric one
queryLimit(query) == IF query # 0 THEN query ELSE DefaultLimit

\* GET /api/news
listNews(self, query) ==
  Response(self, 200, getPublishedNewsArticles(self, queryLimit(query)))

CreateArticle(article) ==
  /\ storage.newsArticleCurrentId <= MaxArticles
  /\ Return("createNewsArticle", createNewsArticle(storage, article))

GetPublishedNewsArticles(limit) ==
  /\ ret' = [op |-> "getPublishedNewsArticles", limit |-> limit,
             value |-> getPublishedNewsArticles(storage, limit)]
  /\ UNCHANGED <<storage, now, issued, inflight>>

ListNews(query) ==
  /\ ret' = [op |-> "GET /api/news", limit |-> queryLimit(query),
             status |-> listNews(storage, query).ret.status,
             value |-> listNews(storage, query).ret.value]
  /\ storage' = listNews(storage, query).self
  /\ UNCHANGED <<now, issued, inflight>>

NextArticle == \E a \in ArticleInputs : CreateArticle(a)

NextArticleSwitch ==
  \E id \in 1..MaxArticles, p \in BOOLEAN : UpdateNewsArticle(id, [isPublished |-> p])

NextListing == \E n \in {0, 1, 2} : GetPublishedNewsArticles(n)

NextListNews == \E q \in {0, 1, 2, -1} : ListNews(q)

NextNews ==
  \/ NextArticle
  \/ NextArticleSwitch
  \/ NextListing
  \/ NextListNews

SpecNews == Init /\ [][NextNews]_vars

\* the time a listed article is ordered by: its publishDate, the epoch
\* when it has none
OrderedBy(article) ==
  IF "publishDate" \in DOMAIN article THEN article.publishDate ELSE 0

\* C21: the public listing, from getPublishedNewsArticles and from
\* GET /api/news, holds only stored articles whose isPublished is true, in
\* non-increasing publishDate order with a missing publishDate ordered as
\* the epoch, and at most limit of them for every positive limit.
C21_ListingPublishedNewestFirst ==
  ret.op \in {"getPublishedNewsArticles", "GET /api/news"} =>
    /\ \A i \in 1..Len(ret.value) :
         /\ ret.value[i].id \in DOMAIN storage.newsArticles
         /\ ret.value[i] = storage.newsArticles[ret.value[i].id]
         /\ "isPublished" \in DOMAIN ret.value[i]
         /\ ret.value[i].isPublished
    /\ \A i, j \in 1..Len(ret.value) :
         i < j => OrderedBy(ret.value[i]) >= OrderedBy(ret.value[j])
    /\ ret.limit > 0 => Len(ret.value) <= ret.limit

\* a listing cut to one out of two published articles: the dated one, ahead
\* of an undated one created before it, while the newest article in the
\* store is a draft and is left out
C21_Witness ==
  /\ ret.op = "getPublishedNewsArticles"
  /\ ret.limit = 1
  /\ Len(ret.value) = 1
  /\ OrderedBy(ret.value[1]) = 1
  /\ \E k \in DOMAIN storage.newsArticles :
       /\ k < ret.value[1].id
       /\ "isPublished" \in DOMAIN storage.newsArticles[k]
       /\ storage.newsArticles[k].isPublished
       /\ "publishDate" \notin DOMAIN storage.newsArticles[k]
  /\ \E k \in DOMAIN storage.newsArticles :
       /\ "isPublished" \in DOMAIN storage.newsArticles[k]
       /\ ~storage.newsArticles[k].isPublished
       /\ OrderedBy(storage.newsArticles[k]) = 2

(***************************************************************************)
(* SpecTrades: createTrade calls interleaved at their awaits.  inflight[r] *)
(* is call r: the await it is suspended at (pc) and the locals of          *)
(* createTrade and of the updateOrder / updateUser call it is inside.  An  *)
(* async method runs up to its first await when it is called, so           *)
(* getOrder and getUser read the map at the call, and updateOrder and      *)
(* updateUser read at the call and write after their own await.            *)
(***************************************************************************)

\* the createTrade calls of a run: two, so that one can run between the
\* awaits of the other
Calls == {1, 2}

\* updateOrder after its `await this.getOrder(id)` answered `order`
updateOrderFound(self, order, data) ==
  IF order = Undefined THEN self
  ELSE [self EXCEPT !.orders =
          MapSet(@, order.id, Merge(Merge(order, data), [updatedAt |-> now]))]

\* updateUser after its `await this.getUser(id)` answered `user`
updateUserFound(self, user, data) ==
  IF user = Undefined THEN self
  ELSE [self EXCEPT !.users =
          MapSet(@, user.id, Merge(Merge(user, data), [updatedAt |-> now]))]

\* createTrade up to `await this.getOrder(trade.buyOrderId)`
createTradeCalled(self, trade) ==
  LET id == self.tradeCurrentId
      newTrade == Merge(trade, [id |-> id, timestamp |-> now])
      s0 == [self EXCEPT !.tradeCurrentId = id + 1,
                         !.trades = MapSet(@, id, newTrade)]
  IN [ self |-> s0,
       frame |-> [ route |-> "createTrade", pc |-> "buyOrder", trade |-> newTrade,
                   buyOrder |-> getOrder(s0, trade.buyOrderId),
                   sellOrder |-> Undefined, order |-> Undefined,
                   buyer |-> Undefined, seller |-> Undefined, user |-> Undefined ] ]

\* the call suspended at await `pc` with locals changed to `locals`
SuspendedAt(self, f, pc, locals) ==
  [self |-> self, frame |-> Merge(Merge(f, locals), [pc |-> pc])]

\* createTrade that, once both orders are loaded, runs to its end in one go
createTradeFromAtOnce(self, f, at) ==
  IF at = "loadSell"
  THEN SuspendedAt(self, f, "sellOrder",
                   [sellOrder |-> getOrder(self, f.trade.sellOrderId)])
  ELSE SuspendedAt(
         applyVolume(applyVolume(applyFill(applyFill(self, f.buyOrder, f.trade),
                                           f.sellOrder, f.trade),
                                 f.buyOrder, f.trade),
                     f.sellOrder, f.trade),
         f, "done", [order |-> Undefined])

RECURSIVE createTradeFrom(_, _, _)
\* createTrade from the statement `at` up to the next await, or to its return
createTradeFrom(self, f, at) ==
  CASE at = "loadSell" ->
         SuspendedAt(self, f, "sellOrder",
                     [sellOrder |-> getOrder(self, f.trade.sellOrderId)])
    [] at = "fillBuy" ->
         IF f.buyOrder # Undefined
         THEN SuspendedAt(self, f, "fillBuy.get",
                          [order |-> getOrder(self, f.buyOrder.id)])
         ELSE createTradeFrom(self, f, "fillSell")
    [] at = "fillBuy.set" ->
         SuspendedAt(updateOrderFound(self, f.order, fillPatch(f.buyOrder, f.trade)),
                     f, "fillBuy", [order |-> Undefined])
    [] at = "fillSell" ->
         IF f.sellOrder # Undefined
         THEN SuspendedAt(self, f, "fillSell.get",
                          [order |-> getOrder(self, f.sellOrder.id)])
         ELSE createTradeFrom(self, f, "loadBuyer")
    [] at = "fillSell.set" ->
         SuspendedAt(updateOrderFound(self, f.order, fillPatch(f.sellOrder, f.trade)),
                     f, "fillSell", [order |-> Undefined])
    [] at = "loadBuyer" ->
         IF f.buyOrder # Undefined
         THEN SuspendedAt(self, f, "buyer", [buyer |-> getUser(self, f.buyOrder.userId)])
         ELSE createTradeFrom(self, f, "loadSeller")
    [] at = "volumeBuyer" ->
         IF f.buyer # Undefined
         THEN SuspendedAt(self, f, "volumeBuyer.get",
                          [user |-> getUser(self, f.buyer.id)])
         ELSE createTradeFrom(self, f, "loadSeller")
    [] at = "volumeBuyer.set" ->
         SuspendedAt(updateUserFound(self, f.user, volumePatch(f.buyer, f.trade)),
                     f, "volumeBuyer", [user |-> Undefined])
    [] at = "loadSeller" ->
         IF f.sellOrder # Undefined
         THEN SuspendedAt(self, f, "seller",
                          [seller |-> getUser(self, f.sellOrder.userId)])
         ELSE createTradeFrom(self, f, "return")
    [] at = "volumeSeller" ->
         IF f.seller # Undefined
         THEN SuspendedAt(self, f, "volumeSeller.get",
                          [user |-> getUser(self, f.seller.id)])
         ELSE createTradeFrom(self, f, "return")
    [] at = "volumeSeller.set" ->
         SuspendedAt(updateUserFound(self, f.user, volumePatch(f.seller, f.trade)),
                     f, "volumeSeller", [user |-> Undefined])
    [] OTHER -> SuspendedAt(self, f, "done", [user |-> Undefined])

\* the statement a call suspended at `pc` goes on with
after(pc) ==
  CASE pc = "buyOrder" -> "loadSell"
    [] pc = "sellOrder" -> "fillBuy"
    [] pc = "fillBuy.get" -> "fillBuy.set"
    [] pc = "fillBuy" -> "fillSell"
    [] pc = "fillSell.get" -> "fillSell.set"
    [] pc = "fillSell" -> "loadBuyer"
    [] pc = "buyer" -> "volumeBuyer"
    [] pc = "volumeBuyer.get" -> "volumeBuyer.set"
    [] pc = "volumeBuyer" -> "loadSeller"
    [] pc = "seller" -> "volumeSeller"
    [] pc = "volumeSeller.get" -> "volumeSeller.set"
    [] OTHER -> "return"

\* call r is the next to be made
Called(r) == r = Cardinality(DOMAIN inflight) + 1 /\ r \in Calls

\* storage.createTrade(trade) is called and runs to its first await
TradeCalled(r, trade) ==
  /\ Called(r)
  /\ LET c == createTradeCalled(storage, trade) IN
     /\ storage' = c.self
     /\ inflight' = MapSet(inflight, r, c.frame)
  /\ ret' = [op |-> "createTrade called", value |-> Undefined]
  /\ UNCHANGED <<now, issued>>

\* call r goes on from the await it is suspended at, to the next one
TradeResumed(r) ==
  /\ r \in DOMAIN inflight
  /\ inflight[r].route = "createTrade"
  /\ inflight[r].pc # "done"
  /\ LET c == createTradeFrom(storage, inflight[r], after(inflight[r].pc)) IN
     /\ storage' = c.self
     /\ inflight' = MapSet(inflight, r, c.frame)
     /\ ret' = IF c.frame.pc = "done"
               THEN [op |-> "createTrade", value |-> c.frame.trade]
               ELSE [op |-> "createTrade resumed", value |-> Undefined]
  /\ UNCHANGED <<now, issued>>

\* another caller reads, in one go, the trade of call r, its buy order and
\* that order's owner
Observed(r) ==
  LET order == getOrder(storage, inflight[r].trade.buyOrderId) IN
  /\ order # Undefined
  /\ ret' = [op |-> "observed", trade |-> getTrade(storage, inflight[r].trade.id),
             order |-> order, user |-> getUser(storage, order.userId)]
  /\ UNCHANGED <<storage, now, issued, inflight>>

InProgress == {r \in DOMAIN inflight : inflight[r].pc # "done"}

\* users sign up before orders are placed, orders are placed before trades
NextTrader ==
  /\ storage.orders = EmptyMap
  /\ CreateUser(insertUserOf(storage.userCurrentId))

NextTraderOrder ==
  /\ inflight = EmptyMap
  /\ CreateOrder(insertOrderOf(AdminUserId, "Limit", 100))

\* once the orders are placed: trades of the first order against itself or
\* against an order that is not stored
NextTradeCalled ==
  /\ storage.orderCurrentId > MaxOrders
  /\ \E r \in Calls, s \in {1, MaxOrders + 1} :
       TradeCalled(r, insertTradeOf(1, s, IF r = 1 THEN 30 ELSE 50, 7))

NextTradeResumed == \E r \in Calls : TradeResumed(r)

NextObserved ==
  /\ ret.op # "observed"
  /\ \E r \in InProgress : Observed(r)

NextTrades ==
  \/ NextTrader
  \/ NextTraderOrder
  \/ NextTradeCalled
  \/ NextTradeResumed
  \/ NextObserved

SpecTrades == Init /\ [][NextTrades]_vars

\* C22: createTrade is not atomic.  Its writes are separate steps with an
\* await between them: the step that stores the trade changes no order and
\* no user, a step that changes an order changes no user and a step that
\* changes a user changes no order; so an operation that runs in between
\* sees the trade stored and a referenced order's filled already increased
\* while the order's owner's totalTradingVolume is not yet increased.
C22_TradeWritesAreSeparateSteps ==
  [][ /\ storage'.trades # storage.trades
         => storage'.orders = storage.orders /\ storage'.users = storage.users
      /\ storage'.orders # storage.orders => storage'.users = storage.users
      /\ storage'.users # storage.users => storage'.orders = storage.orders ]_vars

\* with one createTrade call in progress on a user's order, another caller
\* has read the trade as stored, the order's filled as the trade's amount
\* and the owner's totalTradingVolume still 0
C22_Witness ==
  /\ ret.op = "observed"
  /\ Cardinality(DOMAIN inflight) = 1
  /\ InProgress = {1}
  /\ ret.trade = inflight[1].trade
  /\ ret.trade = storage.trades[1]
  /\ ret.order # Undefined
  /\ ret.order.id = ret.trade.buyOrderId
  /\ ret.order.filled = ret.trade.amount
  /\ ret.user # Undefined
  /\ ret.user.id = ret.order.userId
  /\ ret.trade.totalValue > 0
  /\ ret.user.totalTradingVolume = 0

\* C24: whenever no createTrade call is in progress, every stored order's
\* filled is the sum of the amounts of the stored trades that name it as
\* buy or sell order, each trade counted once; no update is lost when
\* createTrade calls naming one order interleave at their awaits.
C24_FilledIsSumOfTrades ==
  InProgress = {} =>
    \A o \in DOMAIN storage.orders :
      storage.orders[o].filled = TradedAmount(o)

(***************************************************************************)
(* SpecOrders: place-order requests with prices of either sign, on a pair  *)
(* the admin switches off and on                                           *)
(***************************************************************************)

\* the trading-pair route behind authMiddleware alone: any stored user passes
adminUpdateTradingPairByAnyUser(self, header, id, body) ==
  LET user == authenticate(self, header) IN
  IF user = Undefined THEN Response(self, 401, "Authentication required")
  ELSE IF getTradingPair(self, id) = Undefined
  THEN Response(self, 404, "Trading pair not found")
  ELSE LET out == updateTradingPair(self, id, body) IN Response(out.self, 200, out.ret)

\* PATCH /api/admin/trading-pairs/:id behind authMiddleware and
\* adminMiddleware, for a numeric :id
adminUpdateTradingPair(self, header, id, body) ==
  LET user == authenticate(self, header) IN
  IF user = Undefined THEN Response(self, 401, "Authentication required")
  ELSE IF user.id # AdminUserId THEN Response(self, 403, "Admin access required")
  ELSE IF getTradingPair(self, id) = Undefined
  THEN Response(self, 404, "Trading pair not found")
  ELSE LET out == updateTradingPair(self, id, body) IN Response(out.self, 200, out.ret)

\* 0.0002 and -0.0002: insertOrderSchema takes any number as price
SignedPrices == {2000, -2000}

\* bodies that pass insertOrderSchema: a stored or an unknown pair, an
\* amount below, on and above the seeded limits, with or without a price
SignedOrderBodies ==
  LET Base == [tradingPairId : BodyPairIds, type : BodyTypes, side : {"Buy", "Sell"},
               amount : {99, 100, 1000001}]
  IN Base \cup {Merge(b, [price |-> p]) : b \in Base, p \in SignedPrices}

\* a place-order request and its response; the step keeps the header and
\* the pair and type asked for
OrderRequest(header, body) ==
  /\ storage.orderCurrentId + 1 <= MaxOrders
  /\ storage.tradeCurrentId <= MaxTrades
  /\ storage.rewardsEventCurrentId <= MaxEvents
  /\ LET out == placeOrder(storage, header, body) IN
     /\ storage' = out.self
     /\ ret' = [op |-> "POST /api/trading/orders", status |-> out.ret.status,
                value |-> out.ret.value, header |-> header,
                tradingPairId |-> body.tradingPairId, type |-> body.type]
  /\ UNCHANGED <<now, issued, inflight>>

AdminUpdateTradingPair(header, id, body) ==
  Respond("PATCH /api/admin/trading-pairs/:id",
          adminUpdateTradingPair(storage, header, id, body))

NextOrderUser == \E b \in InsertUsers : Register(b)

NextOrderRequest == \E h \in Headers, b \in SignedOrderBodies : OrderRequest(h, b)

NextPairActive ==
  \E h \in Headers, a \in BOOLEAN : AdminUpdateTradingPair(h, 1, [isActive |-> a])

NextOrders ==
  \/ NextOrderUser
  \/ NextOrderRequest
  \/ NextPairActive

SpecOrders == Init /\ [][NextOrders]_vars

\* the step is a place-order request
OrderRequested == ret'.op = "POST /api/trading/orders" /\ "header" \in DOMAIN ret'

\* C25: no place-order request decreases a user's totalTradingVolume or
\* rewardsPoints: for every body the route accepts, each stored user's
\* totalTradingVolume and rewardsPoints after the request are at least
\* what they were before it.
C25_OrdersNeverDecreaseAggregates ==
  [][ OrderRequested =>
        \A u \in DOMAIN storage.users :
          /\ storage'.users[u].totalTradingVolume >= storage.users[u].totalTradingVolume
          /\ storage'.users[u].rewardsPoints >= storage.users[u].rewardsPoints ]_vars

\* C26: a place-order request that is rejected (missing or unknown user-id
\* header, unknown pair, amount below the pair's minimum or above its
\* maximum, Limit order without a price) leaves the whole store unchanged:
\* every map and every id counter.
C26_RejectedOrderChangesNothing ==
  [][ (OrderRequested /\ ret'.status # 201) =>
        /\ ret'.status \in {400, 401, 404}
        /\ storage' = storage ]_vars

\* a Limit order without a price was turned down with a user in the store
C26_Witness ==
  /\ ret.op = "POST /api/trading/orders"
  /\ "header" \in DOMAIN ret
  /\ ret.status = 400
  /\ ret.value = "Price required for limit orders"
  /\ ret.type = "Limit"
  /\ ret.header # <<>>
  /\ ret.header[1] \in DOMAIN storage.users
  /\ storage.orders = EmptyMap
  /\ storage.orderCurrentId = 1

\* C27: an accepted place-order request for a Limit order creates exactly
\* one order, stored with status Open and filled 0, and changes nothing
\* else: no counter-order, trade or rewards event, no user's aggregates.
C27_LimitOrderOnlyStoresItself ==
  [][ (OrderRequested /\ ret'.status = 201 /\ ret'.type = "Limit") =>
        LET id == storage.orderCurrentId IN
        /\ ret'.value.id = id
        /\ ret'.value.status = "Open"
        /\ ret'.value.filled = 0
        /\ storage' = [storage EXCEPT !.orderCurrentId = id + 1,
                                      !.orders = MapSet(@, id, ret'.value)] ]_vars

\* an accepted Limit order of a stored user is the only order in the store
C27_Witness ==
  /\ ret.op = "POST /api/trading/orders"
  /\ "header" \in DOMAIN ret
  /\ ret.status = 201
  /\ ret.type = "Limit"
  /\ DOMAIN storage.orders = {1}
  /\ storage.orders[1] = ret.value
  /\ storage.orders[1].status = "Open"
  /\ storage.orders[1].userId = ret.header[1]
  /\ storage.trades = EmptyMap
  /\ storage.rewardsEvents = EmptyMap

\* C28: no order is created on a trading pair whose isActive is false: a
\* place-order request naming such a pair is rejected and stores nothing.
C28_NoOrderOnInactivePair ==
  [][ (/\ OrderRequested
       /\ ret'.tradingPairId \in DOMAIN storage.tradingPairs
       /\ ~storage.tradingPairs[ret'.tradingPairId].isActive)
        => ret'.status # 201 /\ storage' = storage ]_vars

(***************************************************************************)
(* SpecAdmin: the admin routes, news creation and the article page, asked  *)
(* for with every user-id header                                           *)
(***************************************************************************)

\* PATCH /api/admin/news/:id behind authMiddleware and adminMiddleware, for a
\* numeric :id
adminUpdateNews(self, header, id, body) ==
  LET user == authenticate(self, header) IN
  IF user = Undefined THEN Response(self, 401, "Authentication required")
  ELSE IF user.id # AdminUserId THEN Response(self, 403, "Admin access required")
  ELSE IF getNewsArticle(self, id) = Undefined
  THEN Response(self, 404, "Article not found")
  ELSE LET out == updateNewsArticle(self, id, body) IN Response(out.self, 200, out.ret)

\* POST /api/news behind authMiddleware, for a body that passes
\* insertNewsArticleSchema
createNews(self, header, body) ==
  LET user == authenticate(self, header) IN
  IF user = Undefined THEN Response(self, 401, "Authentication required")
  ELSE IF user.id # AdminUserId THEN Response(self, 403, "Unauthorized")
  ELSE LET out == createNewsArticle(self, body) IN Response(out.self, 201, out.ret)

\* req.user on a route without authMiddleware: the first middleware of
\* registerRoutes sets it to null and nothing on the route reads the header
requestUser(self, header) == Undefined

\* GET /api/news/:id, for a numeric :id
getNews(self, header, id) ==
  LET article == getNewsArticle(self, id)
      user == requestUser(self, header)
  IN
  IF article = Undefined THEN Response(self, 404, "Article not found")
  ELSE IF /\ ~("isPublished" \in DOMAIN article /\ article.isPublished)
          /\ (user = Undefined \/ user.id # AdminUserId)
  THEN Response(self, 404, "Article not found")
  ELSE Response(self, 200, article)

\* a request and its response; the step keeps the header and the :id
Requested(op, header, id, out) ==
  /\ storage' = out.self
  /\ ret' = [op |-> op, status |-> out.ret.status, value |-> out.ret.value,
             header |-> header, id |-> id]
  /\ UNCHANGED <<now, issued, inflight>>

NextAdminRegister == \E b \in InsertUsers : Register(b)

NextAdminUsers ==
  \E h \in Headers, id \in UserIds :
    Requested("PATCH /api/admin/users/:id", h, id,
              adminUpdateUser(storage, h, id, [rewardsPoints |-> 1000]))

NextAdminPairs ==
  \E h \in Headers :
    Requested("PATCH /api/admin/trading-pairs/:id", h, 1,
              adminUpdateTradingPair(storage, h, 1, [isActive |-> FALSE]))

NextAdminNews ==
  \E h \in Headers, id \in 1..MaxNews, p \in BOOLEAN :
    Requested("PATCH /api/admin/news/:id", h, id,
              adminUpdateNews(storage, h, id, [isPublished |-> p]))

NextCreateNews ==
  /\ storage.newsArticleCurrentId <= MaxNews
  /\ \E h \in Headers, p \in BOOLEAN :
       Requested("POST /api/news", h, 0,
                 createNews(storage, h, [title |-> "News", content |-> "Text",
                                         isPublished |-> p]))

NextGetNews ==
  \E h \in Headers, id \in 1..MaxNews :
    Requested("GET /api/news/:id", h, id, getNews(storage, h, id))

NextAdmin ==
  \/ NextAdminRegister
  \/ NextAdminUsers
  \/ NextAdminPairs
  \/ NextAdminNews
  \/ NextCreateNews
  \/ NextGetNews

SpecAdmin == Init /\ [][NextAdmin]_vars

\* the header names the stored admin user
FromAdmin(header) ==
  header # <<>> /\ header[1] = AdminUserId /\ header[1] \in DOMAIN storage.users

\* C23: GET /api/news/:id returns an unpublished article only to the admin:
\* for an article whose isPublished is false the response is 404 for every
\* requester except the admin user (id 1), who receives the article with
\* status 200.
C23_DraftOnlyForAdmin ==
  (/\ ret.op = "GET /api/news/:id"
   /\ ret.id \in DOMAIN storage.newsArticles
   /\ ~storage.newsArticles[ret.id].isPublished)
    => IF FromAdmin(ret.header)
       THEN ret.status = 200 /\ ret.value = storage.newsArticles[ret.id]
       ELSE ret.status = 404

AdminOps ==
  { "PATCH /api/admin/users/:id", "PATCH /api/admin/trading-pairs/:id",
    "PATCH /api/admin/news/:id", "POST /api/news" }

\* C29: only the admin can change users, trading pairs or news articles
\* through the admin routes and news creation: a request whose user-id
\* header is missing, names no stored user, or names a user other than id 1
\* is answered 401 or 403 and leaves the store unchanged.
C29_OnlyAdminChanges ==
  [][ (/\ ret'.op \in AdminOps
       /\ "header" \in DOMAIN ret'
       /\ ~FromAdmin(ret'.header))
        => ret'.status \in {401, 403} /\ storage' = storage ]_vars

\* a stored user other than the admin was turned down with 403 on the
\* trading-pair route, the admin being stored too
C29_Witness ==
  /\ ret.op = "PATCH /api/admin/trading-pairs/:id"
  /\ "header" \in DOMAIN ret
  /\ ret.status = 403
  /\ ret.header[1] \in DOMAIN storage.users
  /\ ret.header[1] # AdminUserId
  /\ AdminUserId \in DOMAIN storage.users
  /\ storage.tradingPairs[1].isActive

(***************************************************************************)
(* SpecReferral: users created one after another under distinct usernames, *)
(* some of them short and ending in a digit                                *)
(***************************************************************************)

\* how many users are created
MaxMembers == 11

\* a username for each position in the run
MemberNames ==
  << "alice", "bob", "carol", "dave", "erin", "frank", "grace", "heidi",
     "ivan", "judy", "mallory", "niaj" >>

\* the usernames the next createUser call may come with: the one of its
\* position, or a short one
NextNames ==
  {"u", "u1"} \cup
    (IF storage.userCurrentId <= Len(MemberNames)
     THEN {MemberNames[storage.userCurrentId]} ELSE {})

Join(username) ==
  /\ storage.userCurrentId <= MaxMembers
  /\ getUserByUsername(storage, username) = Undefined
  /\ Return("createUser",
            createUser(storage, [username |-> username,
                                 email |-> username \o "@x.com"]))

NextReferral == \E n \in NextNames : Join(n)

SpecReferral == Init /\ [][NextReferral]_vars

\* C30: referral codes are unique: after any sequence of createUser calls
\* with pairwise distinct usernames no two stored users have the same
\* referralCode, and each code is the first five characters of the
\* username upper-cased followed by the decimal user id.
C30_ReferralCodesUnique ==
  /\ \A a \in DOMAIN storage.users :
       storage.users[a].referralCode
         = toUpperCase(SubSeq(chars(storage.users[a].username), 1,
                              Min({5, Len(chars(storage.users[a].username))})))
             \o decimal(a)
  /\ \A a, b \in DOMAIN storage.users :
       a # b => storage.users[a].referralCode # storage.users[b].referralCode
====
